---- MODULE Spec2Model ----
(***************************************************************************)
(* Model of the mail-maestro email analysis pipeline: the Response         *)
(* Normalizer (GeminiService.parseAnalysisResponse and the field defaults  *)
(* of the analyze-email edge function) and the Batch Orchestrator in its   *)
(* four implementations (analyze-email over email objects, analyze-email   *)
(* over email ids, summarize-emails, GeminiService.analyzeBatchEmails).    *)
(*                                                                         *)
(* Text is a sequence of tokens; a token is a run of characters that the   *)
(* code never splits (three backticks, "json", a newline, a quote, a word) *)
(* A JSON value is a tagged record, so that values of different JavaScript *)
(* types can be compared.  Confidence values are in hundredths (0.5 = 50). *)
(***************************************************************************)
EXTENDS Integers, Sequences, FiniteSets, TLC

VARIABLES
    \* ---- Response Normalizer (one call of parseAnalysisResponse) ----
    respText,    \* the model's response text before any fence is put around it
    wrapKind,    \* how the response text is wrapped in markdown fences
    norm,        \* parseAnalysisResponse(wrapped text), or NotRun
    normPlain,   \* parseAnalysisResponse(unwrapped text), or NotRun
    renorm,      \* parseAnalysisResponse(JSON.stringify(norm)), or NotRun
    enriched,    \* analyze-email (email objects): the enriched email record
    rowUpdate,   \* analyze-email (email ids): the update written to the row
    \* ---- Batch Orchestrator (one run) ----
    variant,     \* which implementation runs
    emails,      \* the input list, as the sequence of email ids
    i,           \* the loop variable: index (0-based) of the chunk's first email
    pc,          \* position of the handler
    st,          \* st[j]: position of the j-th email's promise
    gw,          \* gw[j]: how the j-th email's gateway call ended
    val,         \* val[j]: the value the j-th email's promise resolved to
    results,     \* analyzedEmails / summarizedEmails / analysisMap
    delays,      \* number of inter-batch delays taken
    chunks,      \* number of chunks started
    requests,    \* number of gateway requests sent
    status,      \* HTTP status of the response, 0 before it is sent
    \* ---- Persistence (the database and the analysis passes writing to it) ----
    emailRow,    \* emailRow[e]: the AI columns of email e's row, or Deleted
    eventsTable, \* the calendar_events table: a set of rows
    tasksTable,  \* the tasks table: a set of rows
    draftsTable, \* the email_drafts table: a set of rows
    lastUpdate,  \* lastUpdate[e]: the pass whose update of e's row executed last
    runIds,      \* runIds[r]: the emailIds invocation r was called with
    runPc,       \* runPc[r]: position of invocation r of analyze-email
    runStatus,   \* runStatus[r]: HTTP status of r's response, 0 before it is sent
    prom,        \* prom[r]: the batchPromises of r, one record per fetched email
    draftPc,     \* position of the generate-email-response invocation
    \* ---- Edge function entry (one invocation of one function) ----
    fn,          \* the edge function invoked
    env,         \* the environment variables that are set
    req,         \* the request: its method and the kind of its body
    edgePc,      \* position of the handler
    edgeStatus,  \* HTTP status of the response, 0 before it is sent
    edgeCalls,   \* the gateway requests and database calls made so far
    \* ---- Tasks page (one task being edited) ----
    taskRow,     \* the task's row in the tasks table
    localTasks,  \* the page's tasks state: the task as last fetched
    editingTask, \* the edit dialog's copy of the task, or NotRun
    corrections, \* the task_corrections table, in insertion order
    applied,     \* the edits applied to the task row, in order
    editPc,      \* position of handleSaveEdit
    \* ---- Inbox page ----
    inboxDb,          \* the emails table as the inbox reads and writes it
    inbox,            \* the page's emails state: the full local list
    filteredEmails,   \* the page's filteredEmails state: the displayed list
    categoryCounts,   \* the page's categoryCounts state
    selectedCategory, \* the category filter
    selectedPriority, \* the priority filter
    searchQuery,      \* the search box
    effectPending,    \* a render is committed whose filter effect has not run
    inflight,         \* the handlers awaiting their database write
    lastDone,         \* the handler invocation that returned last (history)
    clicked,          \* how many handler invocations were started
    \* ---- Compose dialog ----
    composePc,   \* position of ComposeEmail.handleSubmit
    composeLog,  \* what the submits have done so far, in order
    \* ---- AI reply dialog ----
    dlgPc,        \* position of generateResponse / handleSend
    dlgDraftId,   \* the dialog's draftId state, 0 for null
    dlgDrafts,    \* the ids of the rows of email_drafts
    dlgGenerated, \* number of drafts generated in this dialog session
    dlgSent       \* the reply has been inserted into emails

normVars == <<respText, wrapKind, norm, normPlain, renorm, enriched, rowUpdate>>
batchVars ==
    <<variant, emails, i, pc, st, gw, val, results, delays, chunks, requests, status>>
storeVars ==
    <<emailRow, eventsTable, tasksTable, draftsTable, lastUpdate,
      runIds, runPc, runStatus, prom, draftPc>>
edgeVars == <<fn, env, req, edgePc, edgeStatus, edgeCalls>>
pageVars == <<taskRow, localTasks, editingTask, corrections, applied, editPc>>
inboxVars ==
    <<inboxDb, inbox, filteredEmails, categoryCounts, selectedCategory,
      selectedPriority, searchQuery, effectPending, inflight, lastDone,
      clicked>>
composeVars == <<composePc, composeLog>>
dialogVars == <<dlgPc, dlgDraftId, dlgDrafts, dlgGenerated, dlgSent>>
uiVars == <<inboxVars, composeVars, dialogVars>>
restVars == <<storeVars, edgeVars, pageVars, uiVars>>
vars == <<normVars, batchVars, restVars>>

-----------------------------------------------------------------------------
(* JSON values *)

JUndef == [t |-> "undefined"]
JNull == [t |-> "null"]
JInf == [t |-> "infinity"]
JStr(s) == [t |-> "str", s |-> s]
JNum(n) == [t |-> "num", n |-> n]
JBool(b) == [t |-> "bool", b |-> b]
JArr(a) == [t |-> "arr", a |-> a]
JObj(o) == [t |-> "obj", o |-> o]
\* a string made of one word
Word(w) == JStr(<<w>>)

\* JavaScript truthiness, as used by `a || b` and Boolean(a)
Truthy(v) ==
    CASE v.t = "undefined" -> FALSE
      [] v.t = "null" -> FALSE
      [] v.t = "bool" -> v.b
      [] v.t = "num" -> v.n # 0
      [] v.t = "str" -> v.s # <<>>
      [] OTHER -> TRUE

\* a || d
OrElse(v, d) == IF Truthy(v) THEN v ELSE d

\* analysis.k : undefined unless analysis is an object that has the key
Prop(v, k) == IF v.t = "obj" /\ k \in DOMAIN v.o THEN v.o[k] ELSE JUndef

-----------------------------------------------------------------------------
(* Text tokens *)

\* the markdown code-fence marker, three backticks
FENCE == "<'''>"
NL == "\n"
SP == " "
QUOTE == "\""
ESCQUOTE == "\\\""

IsSpace(tok) == tok \in {SP, NL}

\* number literals and the numbers JSON.parse reads them as (hundredths);
\* 1e999 overflows to Infinity
NumLiterals == {"0", "0.5", "0.50", "0.8", "0.95", "1", "1e999"}
NumberOf(tok) ==
    CASE tok = "0" -> JNum(0)
      [] tok = "0.5" -> JNum(50)
      [] tok = "0.50" -> JNum(50)
      [] tok = "0.8" -> JNum(80)
      [] tok = "0.95" -> JNum(95)
      [] tok = "1" -> JNum(100)
      [] tok = "1e999" -> JInf
\* the literal JSON.stringify writes for a finite number
LiteralOf(n) ==
    CASE n = 0 -> "0"
      [] n = 50 -> "0.5"
      [] n = 80 -> "0.8"
      [] n = 95 -> "0.95"
      [] n = 100 -> "1"

-----------------------------------------------------------------------------
(* JSON.parse *)

ParseFail == [ok |-> FALSE]
ParseOk(v, rest) == [ok |-> TRUE, val |-> v, rest |-> rest]

RECURSIVE SkipSpace(_)
SkipSpace(ts) ==
    IF ts # <<>> /\ IsSpace(Head(ts)) THEN SkipSpace(Tail(ts)) ELSE ts

RECURSIVE ParseString(_, _)
\* ts follows the opening quote; acc is the content read so far
ParseString(ts, acc) ==
    IF ts = <<>> THEN ParseFail
    ELSE IF Head(ts) = QUOTE THEN ParseOk(JStr(acc), Tail(ts))
    ELSE IF Head(ts) = NL THEN ParseFail
    ELSE IF Head(ts) = ESCQUOTE THEN ParseString(Tail(ts), Append(acc, QUOTE))
    ELSE ParseString(Tail(ts), Append(acc, Head(ts)))

\* the property name a key string stands for
KeyName(s) == IF Len(s) = 1 THEN s[1] ELSE "?"

RECURSIVE ParseValue(_), ParseElems(_, _, _), ParseMembers(_, _, _), ParseMember(_, _)
ParseValue(ts) ==
    LET s == SkipSpace(ts) IN
    IF s = <<>> THEN ParseFail
    ELSE LET h == Head(s)
             r == Tail(s)
         IN CASE h = "null" -> ParseOk(JNull, r)
              [] h = "true" -> ParseOk(JBool(TRUE), r)
              [] h = "false" -> ParseOk(JBool(FALSE), r)
              [] h \in NumLiterals -> ParseOk(NumberOf(h), r)
              [] h = QUOTE -> ParseString(r, <<>>)
              [] h = "[" -> ParseElems(r, <<>>, TRUE)
              [] h = "{" -> ParseMembers(r, <<>>, TRUE)
              [] OTHER -> ParseFail

ParseElems(ts, acc, first) ==
    LET s == SkipSpace(ts) IN
    IF s = <<>> THEN ParseFail
    ELSE IF Head(s) = "]" THEN ParseOk(JArr(acc), Tail(s))
    ELSE IF first \/ Head(s) = ","
         THEN LET v == ParseValue(IF first THEN s ELSE Tail(s)) IN
              IF ~v.ok THEN ParseFail
              ELSE ParseElems(v.rest, Append(acc, v.val), FALSE)
    ELSE ParseFail

ParseMember(s, acc) ==
    IF s = <<>> \/ Head(s) # QUOTE THEN ParseFail
    ELSE LET k == ParseString(Tail(s), <<>>) IN
         IF ~k.ok THEN ParseFail
         ELSE LET c == SkipSpace(k.rest) IN
              IF c = <<>> \/ Head(c) # ":" THEN ParseFail
              ELSE LET v == ParseValue(Tail(c)) IN
                   IF ~v.ok THEN ParseFail
                   ELSE LET name == KeyName(k.val.s)
                            \* a repeated key keeps the last value
                            o == [x \in (DOMAIN acc) \cup {name} |->
                                     IF x = name THEN v.val ELSE acc[x]]
                        IN ParseMembers(v.rest, o, FALSE)

ParseMembers(ts, acc, first) ==
    LET s == SkipSpace(ts) IN
    IF s = <<>> THEN ParseFail
    ELSE IF Head(s) = "}" THEN ParseOk(JObj(acc), Tail(s))
    ELSE IF first THEN ParseMember(s, acc)
    ELSE IF Head(s) = "," THEN ParseMember(SkipSpace(Tail(s)), acc)
    ELSE ParseFail

\* JSON.parse(text): [ok |-> FALSE] stands for the SyntaxError it throws
JSONParse(ts) ==
    LET v == ParseValue(ts) IN
    IF v.ok /\ SkipSpace(v.rest) = <<>> THEN [ok |-> TRUE, val |-> v.val]
    ELSE ParseFail

-----------------------------------------------------------------------------
(* JSON.stringify *)

\* property order of the objects that are serialised (insertion order)
FieldOrder == <<"emailIndex", "summary", "category", "priority", "sentiment",
                "actionRequired", "keyPoints", "suggestedResponse", "confidence",
                "hasMeeting", "meetingDetails", "hasTasks", "tasks",
                "title", "description", "urgency", "startTime", "endTime">>

RECURSIVE EscapeString(_)
EscapeString(s) ==
    IF s = <<>> THEN <<>>
    ELSE <<IF Head(s) = QUOTE THEN ESCQUOTE ELSE Head(s)>> \o EscapeString(Tail(s))

RECURSIVE Stringify(_), StringifyElems(_), StringifyMembers(_, _, _)
Stringify(v) ==
    CASE v.t = "null" -> <<"null">>
      [] v.t = "infinity" -> <<"null">>
      [] v.t = "bool" -> <<IF v.b THEN "true" ELSE "false">>
      [] v.t = "num" -> <<LiteralOf(v.n)>>
      [] v.t = "str" -> <<QUOTE>> \o EscapeString(v.s) \o <<QUOTE>>
      [] v.t = "arr" -> <<"[">> \o StringifyElems(v.a) \o <<"]">>
      [] v.t = "obj" -> <<"{">> \o StringifyMembers(v.o, 1, TRUE) \o <<"}">>

StringifyElems(a) ==
    IF a = <<>> THEN <<>>
    ELSE Stringify(Head(a))
         \o (IF Tail(a) = <<>> THEN <<>> ELSE <<",">> \o StringifyElems(Tail(a)))

\* the members of o from the n-th name of FieldOrder on; a property whose
\* value is undefined is left out
StringifyMembers(o, n, first) ==
    IF n > Len(FieldOrder) THEN <<>>
    ELSE LET k == FieldOrder[n] IN
         IF k \in DOMAIN o /\ o[k].t # "undefined"
         THEN (IF first THEN <<>> ELSE <<",">>)
              \o <<QUOTE, k, QUOTE, ":">> \o Stringify(o[k])
              \o StringifyMembers(o, n + 1, FALSE)
         ELSE StringifyMembers(o, n + 1, first)

-----------------------------------------------------------------------------
(* GeminiService: the Response Normalizer *)

Categories == {"urgent", "important", "work", "personal", "promotions",
               "spam", "newsletter", "social", "uncategorized"}
Priorities == {"critical", "high", "medium", "low", "trash"}
Sentiments == {"positive", "neutral", "negative"}

\* 0.8 and 0.5, in hundredths
DefaultConfidence == 80
FailureConfidence == 50

\* validCategories.includes(category)
validateCategory(category) ==
    IF category.t = "str" /\ Len(category.s) = 1 /\ category.s[1] \in Categories
    THEN category ELSE Word("uncategorized")

validatePriority(priority) ==
    IF priority.t = "str" /\ Len(priority.s) = 1 /\ priority.s[1] \in Priorities
    THEN priority ELSE Word("medium")

\* String.prototype.trim
RECURSIVE TrimEnd(_)
TrimEnd(ts) ==
    IF ts # <<>> /\ IsSpace(ts[Len(ts)]) THEN TrimEnd(SubSeq(ts, 1, Len(ts) - 1)) ELSE ts
Trim(ts) == TrimEnd(SkipSpace(ts))

StartsWith(ts, prefix) ==
    Len(ts) >= Len(prefix) /\ SubSeq(ts, 1, Len(prefix)) = prefix

\* text.replace(/```json\n?/g, '')
RECURSIVE RemoveJsonFences(_)
RemoveJsonFences(ts) ==
    IF ts = <<>> THEN <<>>
    ELSE IF StartsWith(ts, <<FENCE, "json">>)
         THEN LET r == SubSeq(ts, 3, Len(ts)) IN
              RemoveJsonFences(IF r # <<>> /\ Head(r) = NL THEN Tail(r) ELSE r)
    ELSE <<Head(ts)>> \o RemoveJsonFences(Tail(ts))

\* text.replace(/```\n?/g, '')
RECURSIVE RemoveFences(_)
RemoveFences(ts) ==
    IF ts = <<>> THEN <<>>
    ELSE IF Head(ts) = FENCE
         THEN LET r == Tail(ts) IN
              RemoveFences(IF r # <<>> /\ Head(r) = NL THEN Tail(r) ELSE r)
    ELSE <<Head(ts)>> \o RemoveFences(Tail(ts))

\* "Remove markdown code blocks if present"
CleanText(responseText) ==
    LET cleanedText == Trim(responseText) IN
    IF StartsWith(cleanedText, <<FENCE, "json">>)
    THEN RemoveFences(RemoveJsonFences(cleanedText))
    ELSE IF StartsWith(cleanedText, <<FENCE>>)
    THEN RemoveFences(cleanedText)
    ELSE cleanedText

\* the record returned from the catch block
ParseErrorAnalysis ==
    [summary |-> JStr(<<"Unable to analyze email">>),
     category |-> Word("uncategorized"),
     priority |-> Word("medium"),
     sentiment |-> Word("neutral"),
     actionRequired |-> JBool(FALSE),
     keyPoints |-> JArr(<<>>),
     confidence |-> JNum(FailureConfidence)]

\* the record built from the parsed value ("Validate and set defaults")
ValidatedAnalysis(analysis) ==
    [summary |-> OrElse(Prop(analysis, "summary"), JStr(<<"No summary available">>)),
     category |-> validateCategory(Prop(analysis, "category")),
     priority |-> validatePriority(Prop(analysis, "priority")),
     sentiment |-> OrElse(Prop(analysis, "sentiment"), Word("neutral")),
     actionRequired |-> JBool(Truthy(Prop(analysis, "actionRequired"))),
     keyPoints |-> IF Prop(analysis, "keyPoints").t = "arr"
                   THEN Prop(analysis, "keyPoints") ELSE JArr(<<>>),
     suggestedResponse |-> OrElse(Prop(analysis, "suggestedResponse"), JStr(<<>>)),
     confidence |-> IF Prop(analysis, "confidence").t \in {"num", "infinity"}
                    THEN Prop(analysis, "confidence") ELSE JNum(DefaultConfidence)]

\* what an uncaught exception leaves in place of a result
Thrown == [exception |-> TRUE]

\* the try block: JSON.parse throws on bad text, and reading a property of
\* null throws
TryParseAnalysis(responseText) ==
    LET p == JSONParse(CleanText(responseText)) IN
    IF ~p.ok \/ p.val.t = "null" THEN Thrown
    ELSE ValidatedAnalysis(p.val)

\* the Normalizer without its catch block
parseAnalysisResponse_NoCatch(responseText) == TryParseAnalysis(responseText)

parseAnalysisResponse(responseText) ==
    LET r == TryParseAnalysis(responseText) IN
    IF r = Thrown THEN ParseErrorAnalysis ELSE r

\* a 2xx response whose body carries the model's text
Content(text) == [kind |-> "content", text |-> text]
NetworkError == [kind |-> "network_error"]

\* GeminiService.analyzeEmail: the analysis, or Thrown when generateContent
\* fails (the error is logged and thrown again)
analyzeEmail(resp) ==
    IF resp.kind = "content" THEN parseAnalysisResponse(resp.text) ELSE Thrown

\* analyzeEmail(email).then(analysis => ({emailId, analysis})).catch(() => null)
BatchEntry(email, analysis) ==
    IF analysis = Thrown THEN JNull ELSE [emailId |-> email, analysis |-> analysis]

-----------------------------------------------------------------------------
(* analyze-email edge function: one email's gateway response *)

\* what the gateway call of one email can end in: fetch rejects, a non-2xx
\* status, a 2xx body without a tool call, a tool call with its arguments text
HttpError == [kind |-> "http_error"]
NoToolCall == [kind |-> "no_tool_call"]
ToolCall(args) == [kind |-> "tool_call", args |-> args]
FailedResponses == {NetworkError, HttpError, NoToolCall}

\* the analysis the try block gets out of the response, or Thrown
TryToolCallAnalysis(resp) ==
    IF resp.kind # "tool_call" THEN Thrown
    ELSE LET p == JSONParse(resp.args) IN
         IF ~p.ok THEN Thrown ELSE p.val

\* email objects variant: the record returned from the try block
EnrichedEmail(email, analysis) ==
    [id |-> email,
     summary |-> OrElse(Prop(analysis, "summary"), JStr(<<"No summary available">>)),
     category |-> OrElse(Prop(analysis, "category"), Word("uncategorized")),
     priority |-> OrElse(Prop(analysis, "priority"), Word("medium")),
     sentiment |-> OrElse(Prop(analysis, "sentiment"), Word("neutral")),
     actionRequired |-> JBool(Truthy(Prop(analysis, "actionRequired"))),
     confidence |-> IF Prop(analysis, "confidence").t \in {"num", "infinity"}
                    THEN Prop(analysis, "confidence") ELSE JNum(DefaultConfidence)]

\* the catch block returning the confidence of the try block's default
FailedEmail_DefaultConfidence(email) ==
    [id |-> email,
     summary |-> JStr(<<"Unable to analyze email">>),
     category |-> Word("uncategorized"),
     priority |-> Word("medium"),
     sentiment |-> Word("neutral"),
     actionRequired |-> JBool(FALSE),
     confidence |-> JNum(DefaultConfidence)]

\* email objects variant: the record returned from the catch block
FailedEmail(email) ==
    [id |-> email,
     summary |-> JStr(<<"Unable to analyze email">>),
     category |-> Word("uncategorized"),
     priority |-> Word("medium"),
     sentiment |-> Word("neutral"),
     actionRequired |-> JBool(FALSE),
     confidence |-> JNum(FailureConfidence)]

\* email objects variant: what one batchPromise resolves to, given what the
\* try block read from the response
ObjectResult(email, analysis) ==
    IF analysis = Thrown \/ analysis.t = "null" THEN FailedEmail(email)
    ELSE EnrichedEmail(email, analysis)

analyzeEmailObject(email, resp) == ObjectResult(email, TryToolCallAnalysis(resp))

\* email ids variant: the values of .update({...}); a property whose value is
\* undefined is not sent
EmailUpdate(analysis) ==
    [summary |-> Prop(analysis, "summary"),
     category |-> Prop(analysis, "category"),
     priority |-> Prop(analysis, "priority"),
     sentiment |-> Prop(analysis, "sentiment"),
     action_required |-> Prop(analysis, "actionRequired"),
     confidence |-> Prop(analysis, "confidence")]

\* no update is issued
NoWrite == [written |-> FALSE]

\* email ids variant: reading a property of null throws before the update
AnalysisFailed(analysis) == analysis = Thrown \/ analysis.t = "null"

\* email ids variant: the update one batchPromise issues for its email
analyzeEmailIdUpdate(resp) ==
    LET analysis == TryToolCallAnalysis(resp) IN
    IF AnalysisFailed(analysis) THEN NoWrite ELSE EmailUpdate(analysis)

-----------------------------------------------------------------------------
(* Responses of the model: the texts the Normalizer is run on *)

\* largest number of properties in a generated response object
MaxFields == 2

\* the properties of the analysis the prompt asks for
FieldNames == {"summary", "category", "priority", "sentiment", "actionRequired",
               "keyPoints", "suggestedResponse", "confidence"}

\* values the model may give a property: of the expected shape, empty, of
\* another type, outside the enumeration, containing the fence marker
FieldValues(k) ==
    CASE k = "summary" ->
             {Word("hi"), JStr(<<>>), JStr(<<"see", FENCE, "x">>), JNum(95)}
      [] k = "category" -> {Word("work"), Word("finance"), JNull}
      [] k = "priority" -> {Word("high"), Word("bogus")}
      [] k = "sentiment" -> {Word("positive"), Word("angry"), JStr(<<>>)}
      [] k = "actionRequired" -> {JBool(TRUE), JBool(FALSE), Word("yes")}
      [] k = "keyPoints" -> {JArr(<<Word("a"), Word("b")>>), JArr(<<>>), Word("none")}
      [] k = "suggestedResponse" -> {Word("ok"), JStr(<<>>)}
      [] k = "confidence" -> {JNum(95), JNum(50), JNum(0), JInf, Word("high")}

RECURSIVE ObjectsOver(_)
\* the objects that have exactly the properties D
ObjectsOver(D) ==
    IF D = {} THEN {<<>>}
    ELSE LET k == CHOOSE x \in D : TRUE IN
         {[x \in D |-> IF x = k THEN v ELSE o[x]] :
             o \in ObjectsOver(D \ {k}), v \in FieldValues(k)}

\* a complete, well-formed answer, and one in which a string holds a quote
FullObjects ==
    {[summary |-> Word("hi"), category |-> Word("work"), priority |-> Word("high"),
      sentiment |-> Word("positive"), actionRequired |-> JBool(TRUE),
      keyPoints |-> JArr(<<Word("a")>>), suggestedResponse |-> Word("ok"),
      confidence |-> JNum(95)],
     [summary |-> JStr(<<"say", QUOTE, "hi", QUOTE>>), category |-> Word("spam"),
      priority |-> Word("trash"), sentiment |-> Word("negative"),
      actionRequired |-> JBool(FALSE), keyPoints |-> JArr(<<>>),
      suggestedResponse |-> JStr(<<>>), confidence |-> JNum(80)]}

ResponseObjects ==
    FullObjects \cup
    UNION {ObjectsOver(D) : D \in {S \in SUBSET FieldNames : Cardinality(S) <= MaxFields}}

\* JSON object texts: compact, as JSON.stringify writes them, and some laid
\* out by hand (spaces and newlines, a repeated key, a non-canonical number)
ObjectTexts ==
    {Stringify(JObj(o)) : o \in ResponseObjects} \cup
    {<<"{", NL, SP, QUOTE, "category", QUOTE, ":", SP, QUOTE, "work", QUOTE, ",", NL,
       SP, QUOTE, "confidence", QUOTE, ":", SP, "0.50", NL, "}">>,
     <<"{", QUOTE, "priority", QUOTE, ":", QUOTE, "low", QUOTE, ",",
       QUOTE, "priority", QUOTE, ":", QUOTE, "high", QUOTE, "}">>,
     <<"{", QUOTE, "confidence", QUOTE, ":", "1e999", "}">>}

\* texts that are not a JSON object: free text, nothing, other JSON values,
\* truncated or malformed JSON, a lone fence
OtherTexts ==
    {<<"Sorry">>, <<>>, <<"null">>, <<"0.95">>, <<"true">>,
     <<QUOTE, "work", QUOTE>>, <<"[", "]">>, <<"[", "null", ",", "1", "]">>,
     <<"{">>, <<"{", QUOTE, "summary", QUOTE, ":", "}">>,
     <<"{", QUOTE, "summary", QUOTE, ":", "null", ",", "}">>,
     <<"[", "1", ",", "]">>,
     <<"{", "}", "Sorry">>, <<FENCE>>, <<"Here", "{", "}">>}

ResponseTexts == ObjectTexts \cup OtherTexts

\* how the model wraps its answer in a markdown code block
WrapKinds == {"none", "json", "bare", "tight", "spaced"}
Wrap(kind, text) ==
    CASE kind = "none" -> text
      [] kind = "json" -> <<FENCE, "json", NL>> \o text \o <<NL, FENCE>>
      [] kind = "bare" -> <<FENCE, NL>> \o text \o <<NL, FENCE>>
      [] kind = "tight" -> <<FENCE, "json">> \o text \o <<FENCE>>
      [] kind = "spaced" ->
             <<SP, NL, FENCE, "json", SP, NL>> \o text \o <<NL, FENCE, NL, SP>>

-----------------------------------------------------------------------------
(* Specification of the Normalizer: one response text, normalized by         *)
(* GeminiService, normalized again from its serialisation, and taken as the  *)
(* tool-call arguments of the analyze-email edge function                    *)

NotRun == [notRun |-> TRUE]

\* the batch variables while no batch run is modelled
BatchIdle ==
    /\ variant = "none"
    /\ emails = <<>>
    /\ i = 0
    /\ pc = "idle"
    /\ st = <<>>
    /\ gw = <<>>
    /\ val = <<>>
    /\ results = <<>>
    /\ delays = 0
    /\ chunks = 0
    /\ requests = 0
    /\ status = 0

\* the database and its writers while no analysis pass is modelled
StoreIdle ==
    /\ emailRow = <<>>
    /\ eventsTable = {}
    /\ tasksTable = {}
    /\ draftsTable = {}
    /\ lastUpdate = <<>>
    /\ runIds = <<>>
    /\ runPc = <<>>
    /\ runStatus = <<>>
    /\ prom = <<>>
    /\ draftPc = "idle"

\* no edge function is being entered
EdgeIdle ==
    /\ fn = "none"
    /\ env = {}
    /\ req = NotRun
    /\ edgePc = "idle"
    /\ edgeStatus = 0
    /\ edgeCalls = <<>>

\* the Tasks page is not open
PageIdle ==
    /\ taskRow = NotRun
    /\ localTasks = NotRun
    /\ editingTask = NotRun
    /\ corrections = <<>>
    /\ applied = <<>>
    /\ editPc = "idle"

\* the inbox page is not open
InboxIdle ==
    /\ inboxDb = <<>>
    /\ inbox = <<>>
    /\ filteredEmails = <<>>
    /\ categoryCounts = <<>>
    /\ selectedCategory = "all"
    /\ selectedPriority = "all"
    /\ searchQuery = <<>>
    /\ effectPending = FALSE
    /\ inflight = {}
    /\ lastDone = NotRun
    /\ clicked = 0

\* no email is being composed
ComposeIdle ==
    /\ composePc = "idle"
    /\ composeLog = <<>>

\* the AI reply dialog is not open
DialogIdle ==
    /\ dlgPc = "idle"
    /\ dlgDraftId = 0
    /\ dlgDrafts = {}
    /\ dlgGenerated = 0
    /\ dlgSent = FALSE

UiIdle == InboxIdle /\ ComposeIdle /\ DialogIdle

RestIdle == StoreIdle /\ EdgeIdle /\ PageIdle /\ UiIdle

NormInit ==
    /\ respText \in ResponseTexts
    /\ wrapKind \in WrapKinds
    /\ norm = NotRun
    /\ normPlain = NotRun
    /\ renorm = NotRun
    /\ enriched = NotRun
    /\ rowUpdate = NotRun
    /\ BatchIdle
    /\ RestIdle

\* geminiService.analyzeEmail: the response text goes through the Normalizer
Normalize ==
    /\ norm = NotRun
    /\ norm' = parseAnalysisResponse(Wrap(wrapKind, respText))
    /\ UNCHANGED <<respText, wrapKind, normPlain, renorm, enriched, rowUpdate>>
    /\ UNCHANGED <<batchVars, restVars>>

\* the same answer given without the code block around it
NormalizePlain ==
    /\ norm # NotRun
    /\ normPlain = NotRun
    /\ normPlain' = parseAnalysisResponse(respText)
    /\ UNCHANGED <<respText, wrapKind, norm, renorm, enriched, rowUpdate>>
    /\ UNCHANGED <<batchVars, restVars>>

\* the record is serialised and normalized again
Renormalize ==
    /\ normPlain # NotRun
    /\ renorm = NotRun
    /\ renorm' = parseAnalysisResponse(Stringify(JObj(norm)))
    /\ UNCHANGED <<respText, wrapKind, norm, normPlain, enriched, rowUpdate>>
    /\ UNCHANGED <<batchVars, restVars>>

\* analyze-email over email objects, the text being the tool call's arguments
EnrichObject ==
    /\ renorm # NotRun
    /\ enriched = NotRun
    /\ enriched' = analyzeEmailObject(1, ToolCall(Wrap(wrapKind, respText)))
    /\ UNCHANGED <<respText, wrapKind, norm, normPlain, renorm, rowUpdate>>
    /\ UNCHANGED <<batchVars, restVars>>

\* analyze-email over email ids, the text being the tool call's arguments
UpdateRow ==
    /\ enriched # NotRun
    /\ rowUpdate = NotRun
    /\ rowUpdate' = analyzeEmailIdUpdate(ToolCall(Wrap(wrapKind, respText)))
    /\ UNCHANGED <<respText, wrapKind, norm, normPlain, renorm, enriched>>
    /\ UNCHANGED <<batchVars, restVars>>

NormNext == Normalize \/ NormalizePlain \/ Renormalize \/ EnrichObject \/ UpdateRow

SpecNorm == NormInit /\ [][NormNext]_vars

-----------------------------------------------------------------------------
(* summarize-emails: one chunk's gateway response *)

MinOf(S) == CHOOSE x \in S : \A y \in S : x <= y

\* a 2xx response whose body is not the JSON the handler reads
BadBody == [kind |-> "bad_body"]

\* positions q > p of a "]" ; with fenced, only those followed by \s* and a fence
ArrayEnds(ts, p, fenced) ==
    {q \in (p + 1)..Len(ts) :
        /\ ts[q] = "]"
        /\ fenced => StartsWith(SkipSpace(SubSeq(ts, q + 1, Len(ts))), <<FENCE>>)}

\* position of the "[" that /```(?:json)?\s*(\[/ reaches from a fence at p, or 0
FencedArrayStart(ts, p) ==
    LET a == IF p + 1 <= Len(ts) /\ ts[p + 1] = "json" THEN p + 2 ELSE p + 1
        rest == SubSeq(ts, a, Len(ts))
        b == a + (Len(rest) - Len(SkipSpace(rest)))
    IN IF b <= Len(ts) /\ ts[b] = "[" /\ ArrayEnds(ts, b, TRUE) # {} THEN b ELSE 0

\* content.match(/```(?:json)?\s*(\[[\s\S]*?\])\s*```/) || content.match(/(\[[\s\S]*?\])/),
\* then jsonMatch ? jsonMatch[1] : content
ExtractJson(content) ==
    LET fences == {p \in 1..Len(content) :
                      content[p] = FENCE /\ FencedArrayStart(content, p) # 0}
        opens == {p \in 1..Len(content) :
                      content[p] = "[" /\ ArrayEnds(content, p, FALSE) # {}}
    IN IF fences # {}
       THEN LET b == FencedArrayStart(content, MinOf(fences)) IN
            SubSeq(content, b, MinOf(ArrayEnds(content, b, TRUE)))
       ELSE IF opens # {}
       THEN LET b == MinOf(opens) IN
            SubSeq(content, b, MinOf(ArrayEnds(content, b, FALSE)))
       ELSE content

\* the try/catch around the extraction: aiResults, [] when parsing throws
ParseAiResults(content) ==
    LET p == JSONParse(ExtractJson(content)) IN
    IF p.ok THEN p.val ELSE JArr(<<>>)

RECURSIVE FindResult(_, _)
\* aiResults.find(r => r.emailIndex === idx) || {} ; reading a property of a
\* null element throws
FindResult(a, idx) ==
    IF a = <<>> THEN JObj(<<>>)
    ELSE IF Head(a).t = "null" THEN Thrown
    ELSE IF Prop(Head(a), "emailIndex") = JNum(100 * idx) THEN Head(a)
    ELSE FindResult(Tail(a), idx)

\* the entry pushed for the email at 0-based place idx of the chunk (the
\* emails of the model carry no snippet)
SummarizedEmail(email, aiResult) ==
    [id |-> email,
     summary |-> OrElse(Prop(aiResult, "summary"), JStr(<<"No summary available">>)),
     category |-> OrElse(Prop(aiResult, "category"), Word("Other"))]

\* fallback entry after a non-2xx response
FallbackEmail(email) ==
    [id |-> email,
     summary |-> JStr(<<"No summary available">>),
     category |-> Word("Other")]

\* what one chunk adds to summarizedEmails; threw when the handler's outer
\* catch is reached; batch is the sequence of the chunk's emails
summarizeChunk(batch, resp) ==
    LET threw == [threw |-> TRUE, entries |-> <<>>]
        pushed(entries) == [threw |-> FALSE, entries |-> entries]
    IN CASE resp.kind = "network_error" -> threw
         [] resp.kind = "bad_body" -> threw
         [] resp.kind = "http_error" ->
               pushed([n \in 1..Len(batch) |-> FallbackEmail(batch[n])])
         [] resp.kind = "content" ->
               LET aiResults == ParseAiResults(resp.text) IN
               IF aiResults.t # "arr" THEN threw
               ELSE IF \E n \in 1..Len(batch) : FindResult(aiResults.a, n - 1) = Thrown
               THEN threw
               ELSE pushed([n \in 1..Len(batch) |->
                               SummarizedEmail(batch[n], FindResult(aiResults.a, n - 1))])

-----------------------------------------------------------------------------
(* Batch Orchestrator: inputs *)

\* "Process emails in batches of 5"
BatchSize == 5
\* longest input list of a run, and longest list of the run over email ids
MaxEmails == 11
MaxIds == 6

Variants == {"objects", "ids", "summarize", "gemini"}

\* a complete answer of the model
GoodAnalysis ==
    [summary |-> Word("hi"), category |-> Word("work"), priority |-> Word("high"),
     sentiment |-> Word("positive"), actionRequired |-> JBool(TRUE),
     confidence |-> JNum(95)]
GoodArgs == Stringify(JObj(GoodAnalysis))

\* answers of the email ids variant, with and without a meeting and tasks
IdAnalysis(meeting, tasks) ==
    LET m == IF meeting
             THEN [hasMeeting |-> JBool(TRUE),
                   meetingDetails |-> JObj([title |-> Word("sync")])]
             ELSE [hasMeeting |-> JBool(FALSE)]
        t == IF tasks
             THEN [hasTasks |-> JBool(TRUE),
                   tasks |-> JArr(<<JObj([title |-> Word("review"),
                                          urgency |-> Word("high")])>>)]
             ELSE [hasTasks |-> JBool(FALSE), tasks |-> JArr(<<>>)]
    IN GoodAnalysis @@ m @@ t

\* what the model answers to one summarize-emails chunk
AiEntry(idx, summary, category) ==
    JObj([emailIndex |-> JNum(100 * idx), summary |-> Word(summary),
          category |-> Word(category)])
SummarizeContents ==
    {Wrap("json", Stringify(JArr(<<AiEntry(1, "b", "Work"), AiEntry(0, "a", "Finance")>>))),
     <<"Here">> \o Stringify(JArr(<<AiEntry(0, "a", "Work")>>)),
     <<"Sorry">>,
     <<"{", "}">>,
     <<"[", "null", "]">>}

\* the responses the gateway can give to one request of each implementation
ObjectsGateway == FailedResponses \cup {ToolCall(GoodArgs)}
IdsGateway ==
    FailedResponses \cup {ToolCall(Stringify(JObj(IdAnalysis(m, t)))) : m, t \in BOOLEAN}
GeminiGateway == {NetworkError, Content(Wrap("json", GoodArgs))}
SummarizeGateway ==
    {NetworkError, HttpError, BadBody} \cup {Content(c) : c \in SummarizeContents}
GatewayResponses(v) ==
    CASE v = "objects" -> ObjectsGateway
      [] v = "ids" -> IdsGateway
      [] v = "gemini" -> GeminiGateway
      [] v = "summarize" -> SummarizeGateway

\* each response with what the promise's try block reads from it
GatewayOutcomes(v) ==
    CASE v = "objects" -> {<<r, TryToolCallAnalysis(r)>> : r \in ObjectsGateway}
      [] v = "ids" -> {<<r, TryToolCallAnalysis(r)>> : r \in IdsGateway}
      [] v = "gemini" -> {<<r, analyzeEmail(r)>> : r \in GeminiGateway}
ObjectsOutcomes == GatewayOutcomes("objects")
IdsOutcomes == GatewayOutcomes("ids")
GeminiOutcomes == GatewayOutcomes("gemini")

\* how a gateway call ended, as the caller of the gateway sees it
GwClass(resp) == IF resp.kind \in {"tool_call", "content"} THEN "ok" ELSE "failed"

-----------------------------------------------------------------------------
(* Batch Orchestrator: the loop *)

N == Len(emails)

\* 0-based number of the chunk the j-th email falls in
ChunkOf(j) == (j - 1) \div BatchSize

\* slice(i, i + batchSize - 1): the last email of every full chunk is skipped
Batch_SkipsLast == {j \in 1..N : i < j /\ j < i + BatchSize}

\* slice(i, i + batchSize + 1): a chunk of six
Batch_Wide == {j \in 1..N : i < j /\ j <= i + BatchSize + 1}

\* emails.slice(i, i + batchSize), as the places of the list it covers
Batch == {j \in 1..N : i < j /\ j <= i + BatchSize}

\* Promise.race in the edge functions: the first settled promise ends the wait
AllSettled_Race ==
    IF variant = "gemini" THEN \A j \in Batch : st[j] = "settled"
    ELSE \E j \in Batch : st[j] = "settled"

\* Promise.all(batchPromises) resolves once every promise of the chunk has
AllSettled == \A j \in Batch : st[j] = "settled"

\* one pass of the loop would also send again the requests that failed before
Fetches_Retry ==
    {j \in Batch : variant = "summarize" => j = i + 1}
        \cup {j \in 1..N : j <= i /\ gw[j] = "failed"}

\* the emails at which one pass of the loop sends a gateway request: every
\* email of the chunk (batch.map), in summarize-emails one fetch for the whole
\* chunk, recorded at its first email
Fetches == {j \in Batch : variant = "summarize" => j = i + 1}

\* i + batchSize < emails.length
MoreChunks == i + BatchSize < N

\* the implementations that sleep 500 ms between chunks
Sleeps == {"objects", "gemini"}

\* the promises' values in chunk order
BatchValues == [n \in 1..Cardinality(Batch) |-> val[i + n]]

\* analyzedEmails.push(...batchResults)
PushResults(list, values) == list \o values

\* results.forEach(result => { if (result) analysisMap.set(result.emailId, result.analysis) })
SetResults(map, values) ==
    LET good == {n \in DOMAIN values : values[n] # JNull}
        ids == {values[n].emailId : n \in good}
        last(id) == CHOOSE n \in good :
                       /\ values[n].emailId = id
                       /\ \A m \in good : values[m].emailId = id => m <= n
    IN [id \in (DOMAIN map) \cup ids |->
           IF id \in ids THEN values[last(id)].analysis ELSE map[id]]

\* the event insert decided by the meeting details alone
WantsEvent_DetailsOnly(analysis) == Truthy(Prop(analysis, "meetingDetails"))

\* email ids variant: analysis.hasMeeting && analysis.meetingDetails
WantsEvent(analysis) ==
    Truthy(Prop(analysis, "hasMeeting")) /\ Truthy(Prop(analysis, "meetingDetails"))

\* email ids variant: the tasks insert is issued (a non-array tasks value makes
\* .map throw before any request)
WantsTasks(analysis) ==
    /\ Truthy(Prop(analysis, "hasTasks"))
    /\ Prop(analysis, "tasks").t = "arr"
    /\ Prop(analysis, "tasks").a # <<>>

NormIdle ==
    /\ respText = <<>>
    /\ wrapKind = "none"
    /\ norm = NotRun
    /\ normPlain = NotRun
    /\ renorm = NotRun
    /\ enriched = NotRun
    /\ rowUpdate = NotRun

BatchInit ==
    /\ variant \in Variants
    /\ \E n \in 0..MaxEmails :
          /\ variant = "ids" => n <= MaxIds
          /\ emails = [j \in 1..n |-> j]
          /\ st = [j \in 1..n |-> "idle"]
          /\ gw = [j \in 1..n |-> "none"]
          /\ val = [j \in 1..n |-> NotRun]
    /\ i = 0
    /\ pc = "start"
    /\ results = <<>>
    /\ delays = 0
    /\ chunks = 0
    /\ requests = 0
    /\ status = 0
    /\ NormIdle
    /\ RestIdle

\* the checks before the loop: the email ids variant throws when no row was
\* fetched (credentials are configured)
Receive ==
    /\ pc = "start"
    /\ IF variant = "ids" /\ N = 0
       THEN pc' = "done" /\ status' = 500
       ELSE pc' = "loop" /\ status' = status
    /\ UNCHANGED <<variant, emails, i, st, gw, val, results, delays, chunks, requests>>
    /\ UNCHANGED <<normVars, restVars>>

\* one pass of the loop head: batch.map(...) sends the request of every email
\* of the chunk (summarize-emails sends one request for the whole chunk,
\* recorded at the chunk's first email)
StartChunk ==
    /\ pc = "loop"
    /\ i < N
    /\ st' = [j \in 1..N |-> IF j \in Fetches THEN "sent" ELSE st[j]]
    /\ requests' = requests + Cardinality(Fetches)
    /\ chunks' = chunks + 1
    /\ pc' = "await"
    /\ UNCHANGED <<variant, emails, i, gw, val, results, delays, status>>
    /\ UNCHANGED <<normVars, restVars>>

\* the loop test fails: the response is sent (GeminiService returns its map)
Finish ==
    /\ pc = "loop"
    /\ i >= N
    /\ pc' = "done"
    /\ status' = 200
    /\ UNCHANGED <<variant, emails, i, st, gw, val, results, delays, chunks, requests>>
    /\ UNCHANGED <<normVars, restVars>>

\* the gateway answers the request of the j-th email
GatewaySettles(j) ==
    /\ variant \in {"objects", "gemini", "ids"}
    /\ st[j] = "sent"
    /\ \E o \in (CASE variant = "objects" -> ObjectsOutcomes
                   [] variant = "ids" -> IdsOutcomes
                   [] variant = "gemini" -> GeminiOutcomes) :
          LET analysis == o[2] IN
          /\ gw' = [gw EXCEPT ![j] = GwClass(o[1])]
          /\ CASE variant = "objects" ->
                    /\ val' = [val EXCEPT ![j] = ObjectResult(emails[j], analysis)]
                    /\ st' = [st EXCEPT ![j] = "settled"]
               [] variant = "gemini" ->
                    /\ val' = [val EXCEPT ![j] = BatchEntry(emails[j], analysis)]
                    /\ st' = [st EXCEPT ![j] = "settled"]
               [] variant = "ids" ->
                    IF AnalysisFailed(analysis)
                    THEN /\ val' = [val EXCEPT ![j] = [id |-> emails[j], success |-> FALSE]]
                         /\ st' = [st EXCEPT ![j] = "settled"]
                    ELSE \* the update of the email row is issued
                         /\ val' = [val EXCEPT ![j] = analysis]
                         /\ st' = [st EXCEPT ![j] = "update"]
    /\ UNCHANGED <<variant, emails, i, pc, results, delays, chunks, requests, status>>
    /\ UNCHANGED <<normVars, restVars>>

\* email ids variant: the write that follows the writes in done (an error of
\* a write is only logged), or "settled" when none is left
NextWrite(analysis, done) ==
    IF "calendar" \notin done /\ WantsEvent(analysis) THEN "calendar"
    ELSE IF "tasks" \notin done /\ WantsTasks(analysis) THEN "tasks"
    ELSE "settled"

\* email ids variant: position after a write of the j-th email has returned
AfterWrite(j, done) == NextWrite(val[j], done)

\* email ids variant: a database write of the j-th email returns
WriteSettles(j) ==
    /\ variant = "ids"
    /\ st[j] \in {"update", "calendar", "tasks"}
    /\ LET done == CASE st[j] = "update" -> {"update"}
                     [] st[j] = "calendar" -> {"update", "calendar"}
                     [] st[j] = "tasks" -> {"update", "calendar", "tasks"}
           next == AfterWrite(j, done)
       IN /\ st' = [st EXCEPT ![j] = next]
          /\ val' = IF next = "settled"
                    THEN [val EXCEPT ![j] = [id |-> emails[j], success |-> TRUE]]
                    ELSE val
    /\ UNCHANGED <<variant, emails, i, pc, gw, results, delays, chunks, requests, status>>
    /\ UNCHANGED <<normVars, restVars>>

\* without the per-email catch: a failed gateway request rejects Promise.all
\* and the handler answers from its outer catch
ChunkSettled_Rejects ==
    /\ variant \in {"objects", "gemini", "ids"}
    /\ pc = "await"
    /\ AllSettled
    /\ IF \E j \in Batch : gw[j] = "failed"
       THEN /\ pc' = "done"
            /\ status' = 500
            /\ UNCHANGED <<i, results>>
       ELSE /\ results' = CASE variant = "objects" -> PushResults(results, BatchValues)
                            [] variant = "gemini" -> SetResults(results, BatchValues)
                            [] variant = "ids" -> results
            /\ status' = status
            /\ IF variant \in Sleeps /\ MoreChunks
               THEN pc' = "delay" /\ i' = i
               ELSE pc' = "loop" /\ i' = i + BatchSize
    /\ UNCHANGED <<variant, emails, st, gw, val, delays, chunks, requests>>
    /\ UNCHANGED <<normVars, restVars>>

\* Promise.all resolves: the chunk's results are collected; then the delay is
\* started, or the loop goes on
ChunkSettled ==
    /\ variant \in {"objects", "gemini", "ids"}
    /\ pc = "await"
    /\ AllSettled
    /\ results' = CASE variant = "objects" -> PushResults(results, BatchValues)
                    [] variant = "gemini" -> SetResults(results, BatchValues)
                    [] variant = "ids" -> results
    /\ IF variant \in Sleeps /\ MoreChunks
       THEN pc' = "delay" /\ i' = i
       ELSE pc' = "loop" /\ i' = i + BatchSize
    /\ UNCHANGED <<variant, emails, st, gw, val, delays, chunks, requests, status>>
    /\ UNCHANGED <<normVars, restVars>>

\* setTimeout(resolve, 500) fires
DelayElapsed ==
    /\ pc = "delay"
    /\ delays' = delays + 1
    /\ i' = i + BatchSize
    /\ pc' = "loop"
    /\ UNCHANGED <<variant, emails, st, gw, val, results, chunks, requests, status>>
    /\ UNCHANGED <<normVars, restVars>>

\* summarize-emails: the gateway answers the chunk's request
SummarizeSettles ==
    /\ variant = "summarize"
    /\ pc = "await"
    /\ \E resp \in GatewayResponses(variant) :
          LET out == summarizeChunk(SubSeq(emails, i + 1, i + Cardinality(Batch)), resp) IN
          /\ gw' = [j \in 1..N |-> IF j \in Batch THEN GwClass(resp) ELSE gw[j]]
          /\ st' = [j \in 1..N |-> IF j \in Batch THEN "settled" ELSE st[j]]
          /\ IF out.threw
             THEN /\ pc' = "done"
                  /\ status' = 500
                  /\ UNCHANGED <<i, results>>
             ELSE /\ results' = PushResults(results, out.entries)
                  /\ i' = i + BatchSize
                  /\ pc' = "loop"
                  /\ status' = status
    /\ UNCHANGED <<variant, emails, val, delays, chunks, requests>>
    /\ UNCHANGED <<normVars, restVars>>

BatchNext ==
    \/ Receive
    \/ StartChunk
    \/ Finish
    \/ \E j \in 1..N : GatewaySettles(j)
    \/ \E j \in 1..N : WriteSettles(j)
    \/ ChunkSettled
    \/ DelayElapsed
    \/ SummarizeSettles

SpecBatch == BatchInit /\ [][BatchNext]_vars

\* the event loop runs every continuation that is ready, and every gateway
\* request, database write and timer that is pending settles
\* (runs over no email, one email, a full chunk, a chunk and one email, and
\* the longest list)
LiveLengths == {0, 1, BatchSize, BatchSize + 1, MaxEmails}
LiveInit == BatchInit /\ N \in LiveLengths
LiveBatch == LiveInit /\ [][BatchNext]_vars /\ WF_vars(BatchNext)

-----------------------------------------------------------------------------
(* Persistence: the tables, and the writes of one batchPromise of            *)
(* analyze-email over email ids                                              *)

\* the row of a deleted email
Deleted == [deleted |-> TRUE]

\* email_id of a task whose email was deleted (ON DELETE SET NULL)
NullRef == 0

\* "email.body.substring(0, 300)"
SubstringLimit == 300

\* a long text, known by its name and its length in characters
Text(name, len) == [t |-> "text", name |-> name, len |-> len]

\* text.substring(0, end)
substring(text, end) == [text EXCEPT !.len = IF text.len < end THEN text.len ELSE end]

\* the columns of an emails row the handler reads (all NOT NULL)
EmailRecord(e) ==
    [id |-> e,
     user_id |-> IF e = 1 THEN "alice" ELSE "bob",
     subject |-> Word("subject"),
     body |-> IF e = 1 THEN Text("body", 450) ELSE Text("body", 120)]

\* the AI columns of an emails row before any analysis
UnanalyzedRow ==
    [summary |-> JNull, category |-> JNull, priority |-> JNull,
     sentiment |-> JNull, action_required |-> JNull, confidence |-> JNull]

\* an update that fills only the summary of a row that has none
ApplyUpdate_KeepsSummary(row, update) ==
    [c \in DOMAIN row |->
        IF update[c].t = "undefined" \/ (c = "summary" /\ row[c].t # "null")
        THEN row[c] ELSE update[c]]

\* UPDATE emails SET ... : the columns the request carries are set
ApplyUpdate(row, update) ==
    [c \in DOMAIN row |-> IF update[c].t = "undefined" THEN row[c] ELSE update[c]]

\* an upsert keyed by the email: one event row for an email, whoever inserts
EventRow_Upsert(email, analysis, id) ==
    LET meetingData == Prop(analysis, "meetingDetails") IN
    [user_id |-> email.user_id,
     email_id |-> email.id,
     title |-> OrElse(Prop(meetingData, "title"), email.subject),
     description |-> email.body,
     start_time |-> Prop(meetingData, "startTime"),
     end_time |-> Prop(meetingData, "endTime"),
     location |-> OrElse(Prop(meetingData, "location"), JStr(<<>>)),
     status |-> Word("pending"),
     id |-> <<0, email.id>>]

\* an event row owned by the user who made the request
EventRow_CallerOwned(email, analysis, id) ==
    LET meetingData == Prop(analysis, "meetingDetails") IN
    [user_id |-> IF id[1] = 0 THEN "bob" ELSE "alice",
     email_id |-> email.id,
     title |-> OrElse(Prop(meetingData, "title"), email.subject),
     description |-> email.body,
     start_time |-> Prop(meetingData, "startTime"),
     end_time |-> Prop(meetingData, "endTime"),
     location |-> OrElse(Prop(meetingData, "location"), JStr(<<>>)),
     status |-> Word("pending"),
     id |-> id]

\* the calendar_events row one pass inserts for its email; id stands for the
\* generated primary key and tells which promise inserted the row
EventRow(email, analysis, id) ==
    LET meetingData == Prop(analysis, "meetingDetails") IN
    [user_id |-> email.user_id,
     email_id |-> email.id,
     title |-> OrElse(Prop(meetingData, "title"), email.subject),
     description |-> email.body,
     start_time |-> Prop(meetingData, "startTime"),
     end_time |-> Prop(meetingData, "endTime"),
     location |-> OrElse(Prop(meetingData, "location"), JStr(<<>>)),
     status |-> Word("pending"),
     id |-> id]

\* a column declared NOT NULL has a value
NotNull(v) == v.t \notin {"undefined", "null"}

\* the emails table has a row with this id
EmailExists(e) == e \in DOMAIN emailRow /\ emailRow[e] # Deleted

\* a column without its REFERENCES clause
ForeignKeyHolds_Unchecked(e) == TRUE

\* email_id REFERENCES public.emails(id): the insert of a row is accepted
\* only if the email exists
ForeignKeyHolds(e) == EmailExists(e)

\* calendar_events accepts the row: title, start_time, end_time NOT NULL,
\* email_id REFERENCES emails(id)
EventAccepted(row) ==
    /\ NotNull(row.title)
    /\ NotNull(row.start_time)
    /\ NotNull(row.end_time)
    /\ ForeignKeyHolds(row.email_id)

\* a task row whose description falls back to the whole body
TaskRow_FullBody(email, analysis, task, id) ==
    [user_id |-> email.user_id,
     email_id |-> email.id,
     title |-> Prop(task, "title"),
     description |-> OrElse(Prop(task, "description"), email.body),
     due_date |-> OrElse(Prop(task, "dueDate"), JNull),
     assignee |-> OrElse(Prop(task, "assignee"), JNull),
     urgency |-> Prop(task, "urgency"),
     ai_confidence |-> Prop(analysis, "confidence"),
     status |-> Word("pending"),
     id |-> id]

\* one element of tasksToInsert; id stands for the generated primary key
TaskRow(email, analysis, task, id) ==
    [user_id |-> email.user_id,
     email_id |-> email.id,
     title |-> Prop(task, "title"),
     description |-> OrElse(Prop(task, "description"),
                            substring(email.body, SubstringLimit)),
     due_date |-> OrElse(Prop(task, "dueDate"), JNull),
     assignee |-> OrElse(Prop(task, "assignee"), JNull),
     urgency |-> Prop(task, "urgency"),
     ai_confidence |-> Prop(analysis, "confidence"),
     status |-> Word("pending"),
     id |-> id]

\* analysis.tasks.map(task => ({...}))
TasksToInsert(email, analysis, id) ==
    LET ts == Prop(analysis, "tasks").a IN
    [k \in DOMAIN ts |-> TaskRow(email, analysis, ts[k], id \o <<k>>)]

TaskUrgencies == {"critical", "high", "medium", "low"}

\* tasks accepts the row: title NOT NULL, the CHECK on urgency (which a
\* missing urgency passes), email_id REFERENCES emails(id)
TaskAccepted(row) ==
    /\ NotNull(row.title)
    /\ NotNull(row.urgency) =>
          row.urgency.t = "str" /\ Len(row.urgency.s) = 1 /\ row.urgency.s[1] \in TaskUrgencies
    /\ ForeignKeyHolds(row.email_id)

\* DELETE FROM emails WHERE id = e, on a table referencing emails(id)
\* ON DELETE CASCADE
Cascade(table, e) == {row \in table : row.email_id # e}

\* ... ON DELETE SET NULL
SetNull(table, e) ==
    {IF row.email_id = e THEN [row EXCEPT !.email_id = NullRef] ELSE row : row \in table}


-----------------------------------------------------------------------------
(* Persistence: inputs *)

\* the emails in the database, and the invocations of analyze-email
StoreEmails == {1, 2}
Passes == {1, 2}

\* the emails the user deletes while the analysis runs
Deletable == {1}

\* the emailIds an invocation is called with: the second is a repeated
\* analysis of email 1 (a second click)
RunLists(r) == IF r = 1 THEN {<<1>>, <<1, 2>>} ELSE {<<1>>}

\* the user whose session token the request carries, which no handler reads:
\* pass r of analyze-email is invoked by alice, generate-email-response
\* (invocation 0) by bob
Caller(r) == IF r = 0 THEN "bob" ELSE "alice"

\* answers of the model: complete with a meeting and two tasks (one without a
\* description); complete, signalling neither a meeting nor tasks, yet with
\* details of both; without sentiment, with a meeting that has no times and
\* one task
MeetingTasksAnalysis ==
    GoodAnalysis @@
    [hasMeeting |-> JBool(TRUE),
     meetingDetails |-> JObj([title |-> Word("sync"), startTime |-> Word("t1"),
                              endTime |-> Word("t2")]),
     hasTasks |-> JBool(TRUE),
     tasks |-> JArr(<<JObj([title |-> Word("review"), description |-> Word("doc"),
                            urgency |-> Word("high")]),
                      JObj([title |-> Word("call"), urgency |-> Word("low")])>>)]
PlainAnalysis ==
    [summary |-> Word("yo"), category |-> Word("spam"), priority |-> Word("trash"),
     sentiment |-> Word("negative"), actionRequired |-> JBool(FALSE),
     confidence |-> JNum(50),
     hasMeeting |-> JBool(FALSE),
     meetingDetails |-> JObj([title |-> Word("none"), startTime |-> Word("t1"),
                              endTime |-> Word("t2")]),
     hasTasks |-> JBool(FALSE),
     tasks |-> JArr(<<JObj([title |-> Word("skip"), urgency |-> Word("low")])>>)]
PartialAnalysis ==
    [summary |-> Word("re"), category |-> Word("social"), priority |-> Word("low"),
     actionRequired |-> JBool(TRUE), confidence |-> JNum(80),
     hasMeeting |-> JBool(TRUE), meetingDetails |-> JObj([title |-> Word("lunch")]),
     hasTasks |-> JBool(TRUE),
     tasks |-> JArr(<<JObj([title |-> Word("reply"), urgency |-> Word("medium")])>>)]
StoreAnalyses == {MeetingTasksAnalysis, PlainAnalysis, PartialAnalysis}

\* the gateway's responses to one request, each with what the try block reads
\* from it
StoreGateway ==
    FailedResponses \cup {ToolCall(<<"{">>)}
        \cup {ToolCall(Stringify(JObj(a))) : a \in StoreAnalyses}
StoreOutcomes == {TryToolCallAnalysis(r) : r \in StoreGateway}

\* a batchPromise: the email it was created for, where it stands, the analysis
\* it parsed, and (history) the writes it has attempted and those that failed
Promise(e) ==
    [email |-> EmailRecord(e), pos |-> "sent", analysis |-> NotRun,
     attempted |-> {}, failed |-> {}, success |-> FALSE]


-----------------------------------------------------------------------------
(* Persistence: analyze-email over email ids, generate-email-response and   *)
(* the deletion of an email, interleaved                                     *)

nonStoreVars == <<normVars, batchVars, edgeVars, pageVars, uiVars>>

StoreInit ==
    /\ emailRow = [e \in StoreEmails |-> UnanalyzedRow]
    /\ eventsTable = {}
    /\ tasksTable = {}
    /\ draftsTable = {}
    /\ lastUpdate = [e \in StoreEmails |-> 0]
    /\ \E l1 \in RunLists(1), l2 \in RunLists(2) : runIds = <<l1, l2>>
    /\ runPc = [r \in Passes |-> "start"]
    /\ runStatus = [r \in Passes |-> 0]
    /\ prom = [r \in Passes |-> <<>>]
    /\ draftPc = "start"
    /\ NormIdle
    /\ BatchIdle
    /\ EdgeIdle
    /\ PageIdle
    /\ UiIdle

\* select('*').in('id', emailIds): the rows that exist; none is an error;
\* otherwise batch.map sends the gateway request of every email
FetchEmails(r) ==
    /\ runPc[r] = "start"
    /\ LET found == SelectSeq(runIds[r], EmailExists) IN
       IF found = <<>>
       THEN /\ runPc' = [runPc EXCEPT ![r] = "done"]
            /\ runStatus' = [runStatus EXCEPT ![r] = 500]
            /\ prom' = prom
       ELSE /\ runPc' = [runPc EXCEPT ![r] = "await"]
            /\ runStatus' = runStatus
            /\ prom' = [prom EXCEPT ![r] = [n \in DOMAIN found |-> Promise(found[n])]]
    /\ UNCHANGED <<emailRow, eventsTable, tasksTable, draftsTable, lastUpdate, runIds, draftPc>>
    /\ UNCHANGED nonStoreVars

\* a catch block that stores the defaults of a failed analysis in the row
GatewayAnswers_WritesDefaults(r, n) ==
    /\ prom[r][n].pos = "sent"
    /\ \E analysis \in StoreOutcomes :
          LET e == prom[r][n].email.id IN
          IF AnalysisFailed(analysis)
          THEN /\ prom' = [prom EXCEPT ![r][n] =
                              [@ EXCEPT !.pos = "settled", !.success = FALSE]]
               /\ emailRow' =
                    IF EmailExists(e)
                    THEN [emailRow EXCEPT ![e] =
                            ApplyUpdate(@, EmailUpdate(JObj(ParseErrorAnalysis)))]
                    ELSE emailRow
          ELSE /\ prom' = [prom EXCEPT ![r][n] =
                              [@ EXCEPT !.pos = "update", !.analysis = analysis]]
               /\ emailRow' = emailRow
    /\ UNCHANGED <<eventsTable, tasksTable, draftsTable, lastUpdate,
                   runIds, runPc, runStatus, draftPc>>
    /\ UNCHANGED nonStoreVars

\* the gateway answers: a failure ends the promise in its catch block, an
\* analysis is followed by the update of the email row
GatewayAnswers(r, n) ==
    /\ prom[r][n].pos = "sent"
    /\ \E analysis \in StoreOutcomes :
          prom' = [prom EXCEPT ![r][n] =
                      IF AnalysisFailed(analysis)
                      THEN [@ EXCEPT !.pos = "settled", !.success = FALSE]
                      ELSE [@ EXCEPT !.pos = "update", !.analysis = analysis]]
    /\ UNCHANGED <<emailRow, eventsTable, tasksTable, draftsTable, lastUpdate,
                   runIds, runPc, runStatus, draftPc>>
    /\ UNCHANGED nonStoreVars

\* a failed write thrown to the promise's catch block
AfterReturn_Abort(p, write, failed) ==
    LET next == IF failed THEN "settled"
                ELSE NextWrite(p.analysis, p.attempted \cup {write}) IN
    [p EXCEPT !.attempted = @ \cup {write},
              !.failed = IF failed THEN @ \cup {write} ELSE @,
              !.pos = next,
              !.success = (next = "settled" /\ ~failed)]

\* the promise after one of its writes has returned
AfterReturn(p, write, failed) ==
    LET next == NextWrite(p.analysis, p.attempted \cup {write}) IN
    [p EXCEPT !.attempted = @ \cup {write},
              !.failed = IF failed THEN @ \cup {write} ELSE @,
              !.pos = next,
              !.success = (next = "settled")]

\* the update of the email row returns: done, or an error that is logged
UpdateReturns(r, n) ==
    /\ prom[r][n].pos = "update"
    /\ \E ok \in BOOLEAN :
          LET p == prom[r][n]
              e == p.email.id
          IN /\ IF ok /\ EmailExists(e)
                THEN /\ emailRow' = [emailRow EXCEPT
                                        ![e] = ApplyUpdate(@, EmailUpdate(p.analysis))]
                     /\ lastUpdate' = [lastUpdate EXCEPT ![e] = r]
                ELSE UNCHANGED <<emailRow, lastUpdate>>
             /\ prom' = [prom EXCEPT ![r][n] = AfterReturn(p, "update", ~ok)]
    /\ UNCHANGED <<eventsTable, tasksTable, draftsTable, runIds, runPc, runStatus, draftPc>>
    /\ UNCHANGED nonStoreVars

\* the insert into calendar_events returns
CalendarReturns(r, n) ==
    /\ prom[r][n].pos = "calendar"
    /\ \E ok \in BOOLEAN :
          LET p == prom[r][n]
              row == EventRow(p.email, p.analysis, <<r, n>>)
              inserted == ok /\ EventAccepted(row)
          IN /\ eventsTable' = IF inserted THEN eventsTable \cup {row} ELSE eventsTable
             /\ prom' = [prom EXCEPT ![r][n] = AfterReturn(p, "calendar", ~inserted)]
    /\ UNCHANGED <<emailRow, tasksTable, draftsTable, lastUpdate,
                   runIds, runPc, runStatus, draftPc>>
    /\ UNCHANGED nonStoreVars

\* the insert into tasks returns: all of tasksToInsert or none
TasksReturn(r, n) ==
    /\ prom[r][n].pos = "tasks"
    /\ \E ok \in BOOLEAN :
          LET p == prom[r][n]
              rows == TasksToInsert(p.email, p.analysis, <<r, n>>)
              inserted == ok /\ \A k \in DOMAIN rows : TaskAccepted(rows[k])
          IN /\ tasksTable' = IF inserted THEN tasksTable \cup {rows[k] : k \in DOMAIN rows}
                            ELSE tasksTable
             /\ prom' = [prom EXCEPT ![r][n] = AfterReturn(p, "tasks", ~inserted)]
    /\ UNCHANGED <<emailRow, eventsTable, draftsTable, lastUpdate,
                   runIds, runPc, runStatus, draftPc>>
    /\ UNCHANGED nonStoreVars

\* Promise.all(batchPromises) resolves and the response is sent
RunResponds(r) ==
    /\ runPc[r] = "await"
    /\ \A n \in DOMAIN prom[r] : prom[r][n].pos = "settled"
    /\ runPc' = [runPc EXCEPT ![r] = "done"]
    /\ runStatus' = [runStatus EXCEPT ![r] = 200]
    /\ UNCHANGED <<emailRow, eventsTable, tasksTable, draftsTable, lastUpdate,
                   runIds, prom, draftPc>>
    /\ UNCHANGED nonStoreVars

\* the user deletes an email in the inbox
DeleteEmail(e) ==
    /\ EmailExists(e)
    /\ emailRow' = [emailRow EXCEPT ![e] = Deleted]
    /\ eventsTable' = Cascade(eventsTable, e)
    /\ draftsTable' = Cascade(draftsTable, e)
    /\ tasksTable' = SetNull(tasksTable, e)
    /\ UNCHANGED <<lastUpdate, runIds, runPc, runStatus, prom, draftPc>>
    /\ UNCHANGED nonStoreVars

\* the email_drafts row generate-email-response inserts (email_id stands for
\* the column reply_to_email_id)
DraftRow(email) ==
    [user_id |-> email.user_id, email_id |-> email.id, ai_generated |-> TRUE,
     id |-> <<0>>]

\* generate-email-response for email 1: the email is fetched (not found ends
\* the invocation) and the gateway is asked; then, unless the gateway failed,
\* the draft is inserted
GenerateDraft ==
    /\ draftPc \in {"start", "gateway"}
    /\ IF draftPc = "start"
       THEN /\ draftPc' = IF EmailExists(1) THEN "gateway" ELSE "done"
            /\ draftsTable' = draftsTable
       ELSE /\ draftPc' = "done"
            /\ \E ok \in BOOLEAN :
                  draftsTable' = IF ok /\ ForeignKeyHolds(1)
                                 THEN draftsTable \cup {DraftRow(EmailRecord(1))}
                                 ELSE draftsTable
    /\ UNCHANGED <<emailRow, eventsTable, tasksTable, lastUpdate,
                   runIds, runPc, runStatus, prom>>
    /\ UNCHANGED nonStoreVars

StoreNext ==
    \/ \E r \in Passes : FetchEmails(r)
    \/ \E r \in Passes : \E n \in DOMAIN prom[r] : GatewayAnswers(r, n)
    \/ \E r \in Passes : \E n \in DOMAIN prom[r] : UpdateReturns(r, n)
    \/ \E r \in Passes : \E n \in DOMAIN prom[r] : CalendarReturns(r, n)
    \/ \E r \in Passes : \E n \in DOMAIN prom[r] : TasksReturn(r, n)
    \/ \E r \in Passes : RunResponds(r)
    \/ \E e \in Deletable : DeleteEmail(e)
    \/ GenerateDraft

SpecStore == StoreInit /\ [][StoreNext]_vars

-----------------------------------------------------------------------------
(* Entry of the edge functions: the preflight answer, the request body, the  *)
(* credentials read from the environment, and the first gateway request or   *)
(* database call of the handler                                               *)

EdgeFunctions ==
    {"analyze-email:objects", "analyze-email:ids", "summarize-emails",
     "generate-email-response", "get-google-client-id"}

Credentials ==
    {"LOVABLE_API_KEY", "SUPABASE_URL", "SUPABASE_SERVICE_ROLE_KEY",
     "GOOGLE_CLIENT_ID"}

\* the request methods, and the request bodies by what req.json() gives:
\* "invalid" is no JSON object, "missing" an object without the list or id,
\* "empty" an object with an empty list, "some" an object with a usable one
Methods == {"OPTIONS", "POST"}
Bodies == {"invalid", "missing", "empty", "some"}

\* the credentials function f reads with Deno.env.get
Reads(f) ==
    CASE f = "analyze-email:objects" -> {"LOVABLE_API_KEY"}
      [] f = "summarize-emails" -> {"LOVABLE_API_KEY"}
      [] f = "get-google-client-id" -> {"GOOGLE_CLIENT_ID"}
      [] OTHER ->
            {"LOVABLE_API_KEY", "SUPABASE_URL", "SUPABASE_SERVICE_ROLE_KEY"}

CredentialsOk_KeyOnly(f, e) ==
    (Reads(f) \cap {"LOVABLE_API_KEY", "GOOGLE_CLIENT_ID"}) \subseteq e

\* the handler's `if (!X) throw new Error('... not configured')` checks pass
CredentialsOk(f, e) == Reads(f) \subseteq e

\* the first thing function f awaits outside itself
FirstCall(f) ==
    IF f \in {"analyze-email:ids", "generate-email-response"}
    THEN "database" ELSE "gateway"

Responds(code) == [pc |-> "done", status |-> code, calls |-> <<>>]

Calls(f) == [pc |-> "calling", status |-> 0, calls |-> <<FirstCall(f)>>]

\* the handler of f from its first line to its first external call or to its
\* response, whichever comes first
Enter(f, e, r) ==
    IF r.method = "OPTIONS" THEN Responds(200)
    ELSE IF f = "get-google-client-id"
    THEN IF CredentialsOk(f, e) THEN Responds(200) ELSE Responds(500)
    ELSE IF r.body = "invalid" THEN Responds(500)
    ELSE IF f = "summarize-emails" /\ r.body \in {"missing", "empty"}
    THEN Responds(200)
    ELSE IF ~CredentialsOk(f, e) THEN Responds(500)
    ELSE IF f = "analyze-email:objects" /\ r.body = "missing"
    THEN Responds(500)
    ELSE IF f = "analyze-email:objects" /\ r.body = "empty"
    THEN Responds(200)
    ELSE Calls(f)

EdgeInit ==
    /\ NormIdle
    /\ BatchIdle
    /\ StoreIdle
    /\ PageIdle
    /\ UiIdle
    /\ fn \in EdgeFunctions
    /\ env \in SUBSET Credentials
    /\ req \in [method : Methods, body : Bodies]
    /\ edgePc = "start"
    /\ edgeStatus = 0
    /\ edgeCalls = <<>>

\* the request arrives and the handler runs up to its first external call
Invoke ==
    /\ edgePc = "start"
    /\ LET out == Enter(fn, env, req)
       IN  /\ edgePc' = out.pc
           /\ edgeStatus' = out.status
           /\ edgeCalls' = out.calls
    /\ UNCHANGED <<fn, env, req, normVars, batchVars, storeVars, pageVars,
                   uiVars>>

\* the first external call settles and the rest of the handler runs to its
\* response: 200 from the try block, 500 from its catch
CallSettles ==
    /\ edgePc = "calling"
    /\ \E code \in {200, 500} : edgeStatus' = code
    /\ edgePc' = "done"
    /\ UNCHANGED <<fn, env, req, edgeCalls, normVars, batchVars, storeVars,
                   pageVars, uiVars>>

EdgeNext ==
    \/ Invoke
    \/ CallSettles

SpecEdge == EdgeInit /\ [][EdgeNext]_vars

-----------------------------------------------------------------------------
(* The Tasks page: one task of the signed-in user, edited through the edit   *)
(* dialog and saved with handleSaveEdit                                       *)

MaxEdits == 2

\* the fields of a task that the edit dialog can change
EditedFields(task) ==
    [title |-> task.title,
     description |-> task.description,
     due_date |-> task.due_date,
     assignee |-> task.assignee,
     urgency |-> task.urgency]

\* the task as analyze-email inserted it
ExtractedTask ==
    [id |-> 1,
     title |-> "Send report",
     description |-> "body",
     due_date |-> JNull,
     assignee |-> JNull,
     urgency |-> "medium",
     status |-> "pending",
     snooze_until |-> JNull,
     completed_at |-> JNull]

\* what the user can type or select in the dialog
FormInputs ==
    [title : {"Send report", "Send the report"}, urgency : {"medium", "high"}]

\* the row handleSaveEdit inserts into task_corrections
Correction(original, edited) ==
    [task_id |-> edited.id,
     original_extraction |-> EditedFields(original),
     corrected_values |-> EditedFields(edited),
     correction_type |-> "manual_edit"]

TasksInit ==
    /\ NormIdle
    /\ BatchIdle
    /\ StoreIdle
    /\ EdgeIdle
    /\ UiIdle
    /\ taskRow = ExtractedTask
    /\ localTasks = ExtractedTask
    /\ editingTask = NotRun
    /\ corrections = <<>>
    /\ applied = <<>>
    /\ editPc = "idle"

nonPageVars == <<normVars, batchVars, storeVars, edgeVars, uiVars>>

\* the user opens the edit dialog on the task as the list shows it
handleEdit ==
    /\ editPc = "idle"
    /\ editingTask' = localTasks
    /\ editPc' = "editing"
    /\ UNCHANGED <<taskRow, localTasks, corrections, applied, nonPageVars>>

\* the user changes the title or the urgency in the dialog
ChangeField ==
    /\ editPc = "editing"
    /\ \E input \in FormInputs :
          /\ editingTask' = [editingTask EXCEPT !.title = input.title,
                                                !.urgency = input.urgency]
          /\ editingTask' # editingTask
    /\ UNCHANGED <<taskRow, localTasks, corrections, applied, editPc,
                   nonPageVars>>

\* handleSaveEdit up to the return of the task_corrections insert, whose
\* result is not looked at (the user saves at most MaxEdits times with effect)
InsertCorrection ==
    /\ editPc = "editing"
    /\ Len(corrections) < MaxEdits
    /\ Len(applied) < MaxEdits
    /\ \E inserted \in BOOLEAN :
          corrections' =
              IF inserted
              THEN Append(corrections, Correction(localTasks, editingTask))
              ELSE corrections
    /\ editPc' = "updating"
    /\ UNCHANGED <<taskRow, localTasks, editingTask, applied, nonPageVars>>

\* the tasks update returns: on an error the catch shows a toast and the
\* dialog stays open
UpdateTask ==
    /\ editPc = "updating"
    /\ \E updated \in BOOLEAN :
          IF updated
          THEN /\ taskRow' = [taskRow EXCEPT
                                 !.title = editingTask.title,
                                 !.description = editingTask.description,
                                 !.due_date = editingTask.due_date,
                                 !.assignee = editingTask.assignee,
                                 !.urgency = editingTask.urgency]
               /\ applied' = Append(applied,
                                    [before |-> EditedFields(taskRow),
                                     after |-> EditedFields(taskRow')])
               /\ editPc' = "fetching"
          ELSE /\ editPc' = "editing"
               /\ UNCHANGED <<taskRow, applied>>
    /\ UNCHANGED <<localTasks, editingTask, corrections, nonPageVars>>

\* fetchTasks after the update: the list is replaced when the select
\* succeeds, and the dialog closes either way
fetchTasks ==
    /\ editPc = "fetching"
    /\ \E fetched \in BOOLEAN :
          localTasks' = IF fetched THEN taskRow ELSE localTasks
    /\ editPc' = "idle"
    /\ UNCHANGED <<taskRow, editingTask, corrections, applied, nonPageVars>>

\* the row after fetchTasks, which leaves the list as it was when it fails
Refetched(row, fetched) == IF fetched THEN row ELSE localTasks

\* the click on a task's status icon: handleStatusChange with 'pending' for a
\* task the list shows completed and 'completed' otherwise; completed_at is
\* part of the update only for 'completed'
handleStatusChange ==
    /\ editPc = "idle"
    /\ \E updated, fetched \in BOOLEAN :
          LET newStatus == IF localTasks.status = "completed"
                           THEN "pending" ELSE "completed"
              row == IF newStatus = "completed"
                     THEN [taskRow EXCEPT !.status = newStatus,
                                          !.completed_at = Word("now")]
                     ELSE [taskRow EXCEPT !.status = newStatus]
          IN IF updated
             THEN /\ taskRow' = row
                  /\ localTasks' = Refetched(row, fetched)
             ELSE UNCHANGED <<taskRow, localTasks>>
    /\ UNCHANGED <<editingTask, corrections, applied, editPc, nonPageVars>>

\* the Snooze button, disabled on a task the list shows completed: status
\* 'snoozed' and snooze_until tomorrow
handleSnooze ==
    /\ editPc = "idle"
    /\ localTasks.status # "completed"
    /\ \E updated, fetched \in BOOLEAN :
          LET row == [taskRow EXCEPT !.status = "snoozed",
                                     !.snooze_until = Word("tomorrow")]
          IN IF updated
             THEN /\ taskRow' = row
                  /\ localTasks' = Refetched(row, fetched)
             ELSE UNCHANGED <<taskRow, localTasks>>
    /\ UNCHANGED <<editingTask, corrections, applied, editPc, nonPageVars>>

TasksNext ==
    \/ handleStatusChange
    \/ handleSnooze
    \/ handleEdit
    \/ ChangeField
    \/ InsertCorrection
    \/ UpdateTask
    \/ fetchTasks

SpecTasks == TasksInit /\ [][TasksNext]_vars

-----------------------------------------------------------------------------
(* The compose dialog: ComposeEmail.handleSubmit, one submit after another   *)
(* (the submit button is disabled while a submit is running)                  *)

MaxSubmits == 3

\* an entry of the log: what was done, the email ids it carries, how it ended
Event(ev, ids, ok) == [ev |-> ev, ids |-> ids, ok |-> ok]

\* the log's entries of one kind
EventsOfKind(ev) == {k \in DOMAIN composeLog : composeLog[k].ev = ev}

\* the id of the row the next successful insert returns
NewEmailId ==
    Cardinality({k \in EventsOfKind("insert") : composeLog[k].ok}) + 1

\* a body carrying the ids of every email sent so far
InvokeBody_AllSent(emailData) == [k \in 1..emailData.id |-> k]

\* body: { emailIds: [emailData.id] }
InvokeBody(emailData) == <<emailData.id>>

nonComposeVars ==
    <<normVars, batchVars, storeVars, edgeVars, pageVars, inboxVars, dialogVars>>

ComposeInit ==
    /\ NormIdle
    /\ BatchIdle
    /\ StoreIdle
    /\ EdgeIdle
    /\ PageIdle
    /\ InboxIdle
    /\ DialogIdle
    /\ composePc = "idle"
    /\ composeLog = <<>>

\* the form is submitted: handleSubmit asks for the signed-in user
Submit ==
    /\ composePc = "idle"
    /\ Cardinality(EventsOfKind("submit")) < MaxSubmits
    /\ composeLog' = Append(composeLog, Event("submit", <<>>, TRUE))
    /\ composePc' = "auth"
    /\ UNCHANGED nonComposeVars

\* auth.getUser() returns: without a user the handler throws, with one it
\* issues the insert
GetUserReturns ==
    /\ composePc = "auth"
    /\ \E user \in BOOLEAN : composePc' = IF user THEN "insert" ELSE "idle"
    /\ UNCHANGED <<composeLog, nonComposeVars>>

\* the insert returns: an error is thrown to the catch block; with the new
\* row the handler invokes analyze-email
InsertReturns ==
    /\ composePc = "insert"
    /\ \E ok \in BOOLEAN :
          IF ok
          THEN LET emailData == [id |-> NewEmailId] IN
               /\ composeLog' = composeLog \o
                     <<Event("insert", <<emailData.id>>, TRUE),
                       Event("invoke", InvokeBody(emailData), TRUE)>>
               /\ composePc' = "invoke"
          ELSE /\ composeLog' = Append(composeLog, Event("insert", <<>>, FALSE))
               /\ composePc' = "idle"
    /\ UNCHANGED nonComposeVars

\* the invocation returns, with an analysis error or without: a toast either
\* way, the form is cleared and onEmailSent (the inbox's fetchEmails) is called
InvokeReturns ==
    /\ composePc = "invoke"
    /\ \E ok \in BOOLEAN :
          composeLog' = composeLog \o
              <<Event("returned", <<>>, ok), Event("refetch", <<>>, TRUE)>>
    /\ composePc' = "idle"
    /\ UNCHANGED nonComposeVars

ComposeNext ==
    \/ Submit
    \/ GetUserReturns
    \/ InsertReturns
    \/ InvokeReturns

SpecCompose == ComposeInit /\ [][ComposeNext]_vars

-----------------------------------------------------------------------------
(* The AI reply dialog: EmailResponseDialog.generateResponse and handleSend   *)
(* for one email, from the opening of the dialog to the sending of the reply  *)

MaxDrafts == 4

nonDialogVars ==
    <<normVars, batchVars, storeVars, edgeVars, pageVars, inboxVars, composeVars>>

\* where the dialog's two handlers stand; draftId is the draftId state as the
\* running handleSend saw it when Send was clicked
DialogPc(gen, send, draftId) == [gen |-> gen, send |-> send, draftId |-> draftId]

DialogInit ==
    /\ NormIdle
    /\ BatchIdle
    /\ StoreIdle
    /\ EdgeIdle
    /\ PageIdle
    /\ InboxIdle
    /\ ComposeIdle
    /\ dlgPc = DialogPc("idle", "idle", 0)
    /\ dlgDraftId = 0
    /\ dlgDrafts = {}
    /\ dlgGenerated = 0
    /\ dlgSent = FALSE

\* Generate Response, or Regenerate once a draft is shown: enabled unless a
\* generation is running
generateResponse ==
    /\ dlgPc.gen = "idle"
    /\ dlgPc.send # "closed"
    /\ dlgGenerated < MaxDrafts
    /\ dlgPc' = [dlgPc EXCEPT !.gen = "generating"]
    /\ UNCHANGED <<dlgDraftId, dlgDrafts, dlgGenerated, dlgSent, nonDialogVars>>

\* generate-email-response returns: it failed before saving a draft
\* ("failed"), it saved the draft and the dialog got it ("draft"), or it saved
\* the draft and the response did not reach the dialog ("lost")
GenerateReturns ==
    /\ dlgPc.gen = "generating"
    /\ \E outcome \in {"failed", "draft", "lost"} :
          LET id == dlgGenerated + 1 IN
          /\ dlgGenerated' = IF outcome = "failed" THEN dlgGenerated ELSE id
          /\ dlgDrafts' = IF outcome = "failed" THEN dlgDrafts ELSE dlgDrafts \cup {id}
          /\ dlgDraftId' = IF outcome = "draft" THEN id ELSE dlgDraftId
    /\ dlgPc' = [dlgPc EXCEPT !.gen = "idle"]
    /\ UNCHANGED <<dlgSent, nonDialogVars>>

\* Send, shown while a draft's body is in the dialog and no generation is
\* running: handleSend asks for the user and inserts the reply
handleSend ==
    /\ dlgPc.gen = "idle"
    /\ dlgPc.send = "idle"
    /\ dlgDraftId # 0
    /\ dlgPc' = DialogPc("idle", "inserting", dlgDraftId)
    /\ UNCHANGED <<dlgDraftId, dlgDrafts, dlgGenerated, dlgSent, nonDialogVars>>

\* the emails insert returns: without a user or with an insert error the
\* handler ends in its catch block, otherwise it deletes the draft
ReplyInserted ==
    /\ dlgPc.send = "inserting"
    /\ \E inserted \in BOOLEAN :
          /\ dlgSent' = inserted
          /\ dlgPc' = [dlgPc EXCEPT !.send = IF inserted THEN "deleting" ELSE "idle"]
    /\ UNCHANGED <<dlgDraftId, dlgDrafts, dlgGenerated, nonDialogVars>>

\* the delete of the draft returns, its result not looked at; the dialog
\* closes and its state is reset
DeleteReturns ==
    /\ dlgPc.send = "deleting"
    /\ \E deleted \in BOOLEAN :
          dlgDrafts' = IF deleted THEN dlgDrafts \ {dlgPc.draftId} ELSE dlgDrafts
    /\ dlgDraftId' = 0
    /\ dlgPc' = [dlgPc EXCEPT !.send = "closed"]
    /\ UNCHANGED <<dlgGenerated, dlgSent, nonDialogVars>>

DialogNext ==
    \/ generateResponse
    \/ GenerateReturns
    \/ handleSend
    \/ ReplyInserted
    \/ DeleteReturns

SpecDialog == DialogInit /\ [][DialogNext]_vars

-----------------------------------------------------------------------------
(* The inbox page: the emails list, the filter effect that derives the       *)
(* displayed list, and the handlers that toggle and delete emails             *)

\* at most this many clicks on the read, star and delete buttons
MaxClicks == 2

\* text is a sequence of characters here, so that case matters
UpperCase == {"I", "N", "V"}

\* String.prototype.toLowerCase
toLowerCase(text) ==
    [k \in DOMAIN text |->
        CASE text[k] = "I" -> "i"
          [] text[k] = "N" -> "n"
          [] text[k] = "V" -> "v"
          [] OTHER -> text[k]]

\* String.prototype.includes
includes(text, query) ==
    \E at \in 0..(Len(text) - Len(query)) :
        \A k \in DOMAIN query : text[at + k] = query[k]

\* the rows of the emails table when the page is opened, newest first: an
\* inbox email, a starred inbox email and a sent email
InboxRows ==
    <<[id |-> 1, email_type |-> "inbox", category |-> "work", priority |-> "high",
       subject |-> <<"I", "n", "v">>, from |-> <<"a">>, body |-> <<"x">>,
       read |-> FALSE, starred |-> FALSE],
      [id |-> 2, email_type |-> "inbox", category |-> "personal", priority |-> "medium",
       subject |-> <<"h">>, from |-> <<"b">>, body |-> <<"v", "I", "N">>,
       read |-> TRUE, starred |-> TRUE],
      [id |-> 3, email_type |-> "sent", category |-> "work", priority |-> "high",
       subject |-> <<"R", "e">>, from |-> <<"i", "n">>, body |-> <<"y">>,
       read |-> TRUE, starred |-> FALSE]>>

\* what the user can select and type
CategoryChoices == {"all", "starred", "sent", "work"}
PriorityChoices == {"all", "high"}
SearchChoices == {<<>>, <<"I", "N">>}

\* select('*').order('date', {ascending: false}): the rows that exist
SelectEmails == SelectSeq(inboxDb, LAMBDA row : row # Deleted)

\* updateCategoryCounts: all, starred, and one count per category present
updateCategoryCounts(emailList) ==
    LET at == DOMAIN emailList
        keys == {"all", "starred"} \cup {emailList[k].category : k \in at}
    IN [key \in keys |->
           CASE key = "all" -> Len(emailList)
             [] key = "starred" -> Cardinality({k \in at : emailList[k].starred})
             [] OTHER -> Cardinality({k \in at : emailList[k].category = key})]

\* category 'all' showing every email, sent ones included
applyFilters_AllShowsSent(emailList, category, priority, search) ==
    LET byCategory(email) ==
            IF category = "starred" THEN email.starred
            ELSE IF category = "sent" THEN email.email_type = "sent"
            ELSE IF category # "all"
            THEN email.category = category /\ email.email_type = "inbox"
            ELSE TRUE
    IN SelectSeq(emailList, byCategory)

\* applyFilters: the list it passes to setFilteredEmails
applyFilters(emailList, category, priority, search) ==
    LET byCategory(email) ==
            IF category = "starred" THEN email.starred
            ELSE IF category = "sent" THEN email.email_type = "sent"
            ELSE IF category # "all"
            THEN email.category = category /\ email.email_type = "inbox"
            ELSE email.email_type = "inbox"
        byPriority(email) == email.priority = priority
        query == toLowerCase(search)
        bySearch(email) ==
            \/ includes(toLowerCase(email.subject), query)
            \/ includes(toLowerCase(email.from), query)
            \/ includes(toLowerCase(email.body), query)
        filtered1 == SelectSeq(emailList, byCategory)
        filtered2 == IF priority # "all" THEN SelectSeq(filtered1, byPriority)
                     ELSE filtered1
    IN IF search # <<>> THEN SelectSeq(filtered2, bySearch) ELSE filtered2

\* emails.find(e => e.id === id), or NotRun for undefined
find(emailList, id) ==
    IF \E k \in DOMAIN emailList : emailList[k].id = id
    THEN emailList[CHOOSE k \in DOMAIN emailList : emailList[k].id = id]
    ELSE NotRun

\* a handler invocation awaiting its write: the emails state it was created
\* with, and (history) whether another invocation was awaiting while it was
Invocation(kind, id, emailList, overlapped) ==
    [kind |-> kind, id |-> id, emails |-> emailList, overlapped |-> overlapped]

\* the handler's list passed on as it was
updatedEmails_Unchanged(o) == o.emails

\* the list the handler passes to setEmails after its write succeeded, made
\* from the emails state the handler was created with
updatedEmails(o) ==
    LET list == o.emails IN
    CASE o.kind = "read" ->
            [k \in DOMAIN list |->
                IF list[k].id = o.id THEN [list[k] EXCEPT !.read = ~@] ELSE list[k]]
      [] o.kind = "star" ->
            [k \in DOMAIN list |->
                IF list[k].id = o.id THEN [list[k] EXCEPT !.starred = ~@] ELSE list[k]]
      [] o.kind = "delete" -> SelectSeq(list, LAMBDA e : e.id # o.id)

\* the emails table after the handler's write
Written(o) ==
    IF inboxDb[o.id] = Deleted THEN inboxDb
    ELSE CASE o.kind = "read" ->
                 [inboxDb EXCEPT ![o.id].read = ~find(o.emails, o.id).read]
           [] o.kind = "star" ->
                 [inboxDb EXCEPT ![o.id].starred = ~find(o.emails, o.id).starred]
           [] o.kind = "delete" -> [inboxDb EXCEPT ![o.id] = Deleted]

nonInboxVars ==
    <<normVars, batchVars, storeVars, edgeVars, pageVars, composeVars, dialogVars>>

\* the page after its first fetch and the filter effect that follows it
InboxInit ==
    /\ NormIdle
    /\ BatchIdle
    /\ StoreIdle
    /\ EdgeIdle
    /\ PageIdle
    /\ ComposeIdle
    /\ DialogIdle
    /\ inboxDb = InboxRows
    /\ inbox = InboxRows
    /\ filteredEmails = applyFilters(InboxRows, "all", "all", <<>>)
    /\ categoryCounts = updateCategoryCounts(InboxRows)
    /\ selectedCategory = "all"
    /\ selectedPriority = "all"
    /\ searchQuery = <<>>
    /\ effectPending = FALSE
    /\ inflight = {}
    /\ lastDone = NotRun
    /\ clicked = 0

\* fetchEmails returns: on an error a toast; otherwise the list, the displayed
\* list (unfiltered) and the counts are set
fetchEmails ==
    /\ \E ok \in BOOLEAN :
          IF ok
          THEN /\ inbox' = SelectEmails
               /\ filteredEmails' = SelectEmails
               /\ categoryCounts' = updateCategoryCounts(SelectEmails)
               /\ effectPending' = TRUE
          ELSE UNCHANGED <<inbox, filteredEmails, categoryCounts, effectPending>>
    /\ UNCHANGED <<inboxDb, selectedCategory, selectedPriority, searchQuery,
                   inflight, lastDone, clicked, nonInboxVars>>

\* useEffect(() => applyFilters(...), [emails, selectedCategory,
\* selectedPriority, searchQuery]) runs after the render was committed
FilterEffect ==
    /\ effectPending
    /\ filteredEmails' =
          applyFilters(inbox, selectedCategory, selectedPriority, searchQuery)
    /\ effectPending' = FALSE
    /\ UNCHANGED <<inboxDb, inbox, categoryCounts, selectedCategory,
                   selectedPriority, searchQuery, inflight, lastDone, clicked, nonInboxVars>>

handleCategoryChange ==
    /\ \E category \in CategoryChoices \ {selectedCategory} :
          selectedCategory' = category
    /\ effectPending' = TRUE
    /\ UNCHANGED <<inboxDb, inbox, filteredEmails, categoryCounts, selectedPriority,
                   searchQuery, inflight, lastDone, clicked, nonInboxVars>>

handlePriorityChange ==
    /\ \E priority \in PriorityChoices \ {selectedPriority} :
          selectedPriority' = priority
    /\ effectPending' = TRUE
    /\ UNCHANGED <<inboxDb, inbox, filteredEmails, categoryCounts, selectedCategory,
                   searchQuery, inflight, lastDone, clicked, nonInboxVars>>

handleSearchChange ==
    /\ \E query \in SearchChoices \ {searchQuery} : searchQuery' = query
    /\ effectPending' = TRUE
    /\ UNCHANGED <<inboxDb, inbox, filteredEmails, categoryCounts, selectedCategory,
                   selectedPriority, inflight, lastDone, clicked, nonInboxVars>>

\* a click on a displayed email: handleToggleRead, handleToggleStar or
\* handleDelete issues its write (the toggles return when the email is not in
\* the emails state)
Click(kind, id) ==
    /\ clicked < MaxClicks
    /\ clicked' = clicked + 1
    /\ \E k \in DOMAIN filteredEmails : filteredEmails[k].id = id
    /\ \A o \in inflight : o.id # id
    /\ kind # "delete" => find(inbox, id) # NotRun
    /\ inflight' =
          {[o EXCEPT !.overlapped = TRUE] : o \in inflight}
              \cup {Invocation(kind, id, inbox, inflight # {})}
    /\ UNCHANGED <<inboxDb, inbox, filteredEmails, categoryCounts, selectedCategory,
                   selectedPriority, searchQuery, effectPending, lastDone,
                   nonInboxVars>>

\* the write of an invocation returns: an error ends in the catch block;
\* otherwise setEmails, and for a star or a delete updateCategoryCounts
WriteReturns(o) ==
    /\ o \in inflight
    /\ inflight' = inflight \ {o}
    /\ \E ok \in BOOLEAN :
          /\ lastDone' = [kind |-> o.kind, id |-> o.id, ok |-> ok,
                          overlapped |-> o.overlapped]
          /\ IF ok
             THEN /\ inboxDb' = Written(o)
                  /\ inbox' = updatedEmails(o)
                  /\ categoryCounts' =
                        IF o.kind = "read" THEN categoryCounts
                        ELSE updateCategoryCounts(updatedEmails(o))
                  /\ effectPending' = TRUE
             ELSE UNCHANGED <<inboxDb, inbox, categoryCounts, effectPending>>
    /\ UNCHANGED <<filteredEmails, selectedCategory, selectedPriority, searchQuery,
                   clicked, nonInboxVars>>

InboxNext ==
    \/ fetchEmails
    \/ FilterEffect
    \/ handleCategoryChange
    \/ handlePriorityChange
    \/ handleSearchChange
    \/ \E kind \in {"read", "star", "delete"}, id \in DOMAIN InboxRows : Click(kind, id)
    \/ \E o \in inflight : WriteReturns(o)

SpecInbox == InboxInit /\ [][InboxNext]_vars

-----------------------------------------------------------------------------
(* Properties of the Batch Orchestrator, checked under SpecBatch *)

CeilDiv(a, b) == (a + b - 1) \div b

\* the j-th email's chunk has been collected into the results
Collected(j) == j <= i \/ (pc = "delay" /\ j \in Batch) \/ (pc = "done" /\ status = 200)

Failed(j) == gw[j] = "failed"

InFlight == {j \in 1..N : st[j] = "sent"}

\* the failure-default values of an entry
IsFailureDefault(e) ==
    /\ e.category = Word("uncategorized")
    /\ e.priority = Word("medium")
    /\ e.sentiment = Word("neutral")
    /\ e.actionRequired = JBool(FALSE)
    /\ e.confidence = JNum(50)

\* C1, as stated: a run of analyze-email over email objects, of
\* summarize-emails and of GeminiService.analyzeBatchEmails that returns its
\* results has exactly N result entries, whatever the gateway did, and went
\* through ceil(N/5) chunks.
C1_ExactlyN ==
    (pc = "done" /\ status = 200 /\ variant \in {"objects", "summarize", "gemini"})
        => /\ Cardinality(DOMAIN results) = N
           /\ chunks = CeilDiv(N, BatchSize)

\* C1, amended: analyze-email over email objects always answers with exactly N
\* entries, the j-th for the j-th email; summarize-emails does whenever it
\* answers with success; GeminiService.analyzeBatchEmails returns a map with
\* an entry for exactly the emails whose analysis did not throw; a run that
\* is not aborted goes through ceil(N/5) chunks.
C1_EntriesPerVariant ==
    pc = "done" =>
        /\ variant = "objects" => status = 200
        /\ (variant \in {"objects", "summarize"} /\ status = 200) =>
              /\ Len(results) = N
              /\ \A j \in 1..N : results[j].id = emails[j]
        /\ variant = "gemini" =>
              DOMAIN results = {emails[j] : j \in {k \in 1..N : ~Failed(k)}}
        /\ status = 200 => chunks = CeilDiv(N, BatchSize)

\* a three-chunk run of GeminiService ended with failed and analysed emails
C1_Witness ==
    /\ pc = "done"
    /\ variant = "gemini"
    /\ N > 2 * BatchSize
    /\ \E j, k \in 1..N : Failed(j) /\ ~Failed(k)

\* C2, as stated: an email whose gateway call failed has the failure-default
\* record as its result entry.
C2_FailureGivesDefaultEntry ==
    (pc = "done" /\ variant \in {"objects", "gemini"}) =>
        \A j \in 1..N : Failed(j) =>
            LET key == IF variant = "gemini" THEN emails[j] ELSE j IN
            key \in DOMAIN results /\ IsFailureDefault(results[key])

\* C2, amended: in analyze-email over email objects a failed email's entry is
\* the failure-default record; in GeminiService.analyzeBatchEmails a failed
\* email has no entry; in both, the entry of every other email is the one its
\* own gateway response gives, whatever happened to the emails around it.
C2_FailureIsLocal ==
    \A j \in 1..N : Collected(j) =>
        CASE variant = "objects" ->
                /\ j \in DOMAIN results
                /\ results[j].id = emails[j]
                /\ IF Failed(j)
                   THEN /\ IsFailureDefault(results[j])
                        /\ results[j].summary = JStr(<<"Unable to analyze email">>)
                   ELSE /\ results[j].summary = Word("hi")
                        /\ results[j].category = Word("work")
                        /\ results[j].priority = Word("high")
                        /\ results[j].sentiment = Word("positive")
                        /\ results[j].actionRequired = JBool(TRUE)
                        /\ results[j].confidence = JNum(95)
          [] variant = "gemini" ->
                IF Failed(j) THEN emails[j] \notin DOMAIN results
                ELSE /\ emails[j] \in DOMAIN results
                     /\ results[emails[j]].summary = Word("hi")
                     /\ results[emails[j]].category = Word("work")
                     /\ results[emails[j]].confidence = JNum(95)
          [] OTHER -> TRUE

\* analyze-email over email objects answered a list in which a failed email
\* stands between analysed ones, in the first chunk and before a later chunk
C2_Witness ==
    /\ pc = "done"
    /\ variant = "objects"
    /\ N > BatchSize
    /\ Failed(2) /\ ~Failed(1) /\ ~Failed(3) /\ ~Failed(N)

\* C3: no request and no database write of an email of a later chunk is
\* started before every email of the earlier chunks has settled.
C3_ChunksSequential ==
    \A a, b \in 1..N :
        (ChunkOf(a) < ChunkOf(b) /\ st[b] # "idle") => st[a] = "settled"

\* the email ids variant is writing to the database for an email of the
\* second chunk
C3_Witness ==
    /\ variant = "ids"
    /\ \E b \in 1..N : ChunkOf(b) = 1 /\ st[b] \in {"update", "calendar", "tasks"}

\* C4, as stated: a run over N > 0 emails takes ceil(N/5) - 1 delays, one
\* before every chunk but the first.
C4_DelayBetweenChunks ==
    variant \in {"objects", "ids", "gemini"} =>
        /\ pc = "await" => delays = chunks - 1
        /\ (pc = "done" /\ status = 200 /\ N > 0) => delays = CeilDiv(N, BatchSize) - 1

\* C5: at most 5 gateway requests of a run are in flight.
C5_AtMostBatchSizeInFlight == Cardinality(InFlight) <= BatchSize

\* all five requests of a second chunk are in flight
C5_Witness == chunks = 2 /\ Cardinality(InFlight) = BatchSize

-----------------------------------------------------------------------------
(* Properties of the Response Normalizer, checked under SpecNorm *)

RequiredFields == {"summary", "category", "priority", "sentiment",
                   "actionRequired", "keyPoints", "confidence"}

Populated(r) ==
    /\ r # Thrown
    /\ \A f \in RequiredFields : f \in DOMAIN r /\ r[f].t \notin {"undefined", "null"}

\* C6: for every response text the Normalizer returns a record with summary,
\* category, priority, sentiment, actionRequired, keyPoints and confidence
\* populated, and never throws.
C6_NormalizerTotal ==
    /\ norm # NotRun => Populated(norm)
    /\ normPlain # NotRun => Populated(normPlain)
    /\ renorm # NotRun => Populated(renorm)

\* the Normalizer was given the JSON value null inside a code block
C6_Witness == norm # NotRun /\ respText = <<"null">> /\ wrapKind = "json"

\* the object a response text parses to
ParsedObject == JSONParse(respText).val

IsObjectText == JSONParse(respText).ok /\ JSONParse(respText).val.t = "obj"

\* a value of the shape the field is documented to have
ExpectedShape(f, v) ==
    CASE f = "summary" -> v.t = "str" /\ v.s # <<>>
      [] f = "category" -> v.t = "str" /\ Len(v.s) = 1 /\ v.s[1] \in Categories
      [] f = "priority" -> v.t = "str" /\ Len(v.s) = 1 /\ v.s[1] \in Priorities
      [] f = "sentiment" -> v.t = "str" /\ Len(v.s) = 1 /\ v.s[1] \in Sentiments
      [] f = "actionRequired" -> v.t = "bool"
      [] f = "keyPoints" -> v.t = "arr"
      [] f = "confidence" -> v.t = "num"

\* a value of another JavaScript type than the field's
WrongType(f, v) ==
    CASE f \in {"summary", "category", "priority", "sentiment"} -> v.t # "str"
      [] f = "actionRequired" -> v.t # "bool"
      [] f = "keyPoints" -> v.t # "arr"
      [] f = "confidence" -> v.t \notin {"num", "infinity"}

DocumentedDefault(f) ==
    CASE f = "summary" -> JStr(<<"No summary available">>)
      [] f = "category" -> Word("uncategorized")
      [] f = "priority" -> Word("medium")
      [] f = "sentiment" -> Word("neutral")
      [] f = "actionRequired" -> JBool(FALSE)
      [] f = "keyPoints" -> JArr(<<>>)
      [] f = "confidence" -> JNum(80)

\* C7, as stated: of a parsed response object, every field of the expected
\* shape is kept and every field that is absent or of another type is replaced
\* by its documented default.
C7_FieldByFieldDefaults ==
    (normPlain # NotRun /\ IsObjectText) =>
        \A f \in RequiredFields :
            LET v == Prop(ParsedObject, f) IN
            /\ (v.t = "undefined" \/ WrongType(f, v)) => normPlain[f] = DocumentedDefault(f)
            /\ ExpectedShape(f, v) => normPlain[f] = v

InEnumeration(v, enum) == v.t = "str" /\ Len(v.s) = 1 /\ v.s[1] \in enum

\* C8, as stated: in every analysis result and every email row written,
\* category is one of the 9 categories and priority one of the 5 priorities.
C8_EnumerationsEnforced ==
    /\ norm # NotRun =>
          InEnumeration(norm.category, Categories) /\ InEnumeration(norm.priority, Priorities)
    /\ enriched # NotRun =>
          /\ InEnumeration(enriched.category, Categories)
          /\ InEnumeration(enriched.priority, Priorities)
    /\ (rowUpdate # NotRun /\ rowUpdate # NoWrite) =>
          /\ rowUpdate.category.t # "undefined" =>
                InEnumeration(rowUpdate.category, Categories)
          /\ rowUpdate.priority.t # "undefined" =>
                InEnumeration(rowUpdate.priority, Priorities)

\* C9, as stated: normalizing the serialisation of a record the Normalizer
\* returned gives the same record, field for field.
C9_NormalizeIdempotent == renorm # NotRun => renorm = norm

\* C10, as stated: a JSON object text wrapped in a markdown code block
\* normalizes to the same record as the text itself.
C10_FencesTransparent ==
    (norm # NotRun /\ normPlain # NotRun /\ IsObjectText /\ wrapKind # "none")
        => norm = normPlain

-----------------------------------------------------------------------------
(* Properties of the invocation as a whole, checked under SpecBatch *)

\* the emails a gateway request was sent for
Requested == {j \in 1..N : st[j] # "idle"}

\* C17, as stated: with credentials configured and a non-empty list of
\* existing emails, the invocation answers with status 200 whatever the
\* gateway did for each email.
C17_AlwaysSuccess == (pc = "done" /\ N > 0) => status = 200

\* C18, as stated: a run over N emails that returns its results has sent
\* exactly N gateway requests.
C18_OneRequestPerEmail == (pc = "done" /\ status = 200) => requests = N

\* C18, amended: analyze-email (both variants) and GeminiService send exactly
\* one request for each email, N in a whole run; summarize-emails sends exactly
\* one request for each chunk, ceil(N/5) in a run that is not aborted; no
\* request is sent a second time, whether it failed or not.
C18_RequestsPerVariant ==
    IF variant = "summarize"
    THEN /\ requests = chunks
         /\ (pc = "done" /\ status = 200) => requests = CeilDiv(N, BatchSize)
    ELSE /\ requests = Cardinality(Requested)
         /\ (pc = "done" /\ status = 200) => requests = N

\* a run of analyze-email over email ids ended after a request of its first
\* chunk had failed and a second chunk was processed
C18_Witness ==
    /\ pc = "done"
    /\ variant = "ids"
    /\ N > BatchSize
    /\ \E j \in 1..BatchSize : Failed(j)

-----------------------------------------------------------------------------
(* Properties of the persistence writes, checked under SpecStore *)

\* the batchPromises of both invocations, each named by its invocation and
\* its place in the batch
Promises == {<<r, n>> : r \in Passes, n \in 1..2} \cap
            {x \in Passes \X (1..2) : x[2] \in DOMAIN prom[x[1]]}
PromiseOf(x) == prom[x[1]][x[2]]

\* the gateway call of the promise succeeded
Analysed(x) == PromiseOf(x).analysis # NotRun

\* the write was attempted and did not fail
Succeeded(x, write) ==
    write \in PromiseOf(x).attempted /\ write \notin PromiseOf(x).failed

\* the analysis says a meeting / tasks were detected
MeetingSignalled(analysis) == Truthy(Prop(analysis, "hasMeeting"))
TasksSignalled(analysis) == Truthy(Prop(analysis, "hasTasks"))
ExtractedTasks(analysis) == Prop(analysis, "tasks").a

\* the writes the analysis calls for
CalledFor(analysis) ==
    {"update"}
        \cup (IF MeetingSignalled(analysis) /\ NotNull(Prop(analysis, "meetingDetails"))
              THEN {"calendar"} ELSE {})
        \cup (IF TasksSignalled(analysis) /\ ExtractedTasks(analysis) # <<>>
              THEN {"tasks"} ELSE {})

\* the rows a promise inserted
EventsOf(x) == {row \in eventsTable : row.id = x}
TasksOf(x) == {row \in tasksTable : SubSeq(row.id, 1, 2) = x}

\* what a row's email reference is now, the email being e
RefTo(e) == IF EmailExists(e) THEN e ELSE NullRef

\* C11: for an email whose gateway call succeeded, every write the analysis
\* calls for is attempted whether or not the others failed; the rows of a
\* write that succeeded stay when another write fails; the promise resolves
\* with success and the invocation answers 200 whatever writes failed.
C11_WritesIndependent ==
    /\ \A x \in Promises : Analysed(x) =>
          LET p == PromiseOf(x) IN
          /\ p.pos = "settled" => (p.attempted = CalledFor(p.analysis) /\ p.success)
          /\ (Succeeded(x, "calendar") /\ EmailExists(p.email.id)) => EventsOf(x) # {}
          /\ Succeeded(x, "tasks") =>
                Cardinality(TasksOf(x)) = Len(ExtractedTasks(p.analysis))
    /\ \A r \in Passes :
          (runPc[r] = "done" /\ prom[r] # <<>>) =>
              /\ runStatus[r] = 200
              /\ \A n \in DOMAIN prom[r] : prom[r][n].pos = "settled"

\* an invocation over two emails has answered; for its first email the
\* update and the calendar insert failed and the tasks were inserted, and its
\* second email was analysed and written without a failure
C11_Witness ==
    /\ runPc[1] = "done"
    /\ Len(prom[1]) = 2
    /\ prom[1][1].failed = {"update", "calendar"}
    /\ Succeeded(<<1, 1>>, "tasks")
    /\ Analysed(<<1, 2>>)
    /\ prom[1][2].failed = {}

\* C12: one pass over one email inserts at most one calendar event for it:
\* exactly one, pending and referencing the email, when a meeting is signalled
\* and the insert succeeds; none when no meeting is signalled.
C12_AtMostOneEvent ==
    \A x \in Promises :
        LET p == PromiseOf(x) IN
        /\ Cardinality(EventsOf(x)) <= 1
        /\ (Succeeded(x, "calendar") /\ EmailExists(p.email.id)) =>
              /\ MeetingSignalled(p.analysis)
              /\ \E row \in eventsTable :
                    /\ EventsOf(x) = {row}
                    /\ row.status = Word("pending")
                    /\ row.email_id = p.email.id
        /\ (~Analysed(x) \/ ~MeetingSignalled(p.analysis)) => EventsOf(x) = {}

\* a pass that signalled a meeting has inserted its event, and a pass over
\* the same email that signalled none has settled
C12_Witness ==
    \E x, y \in Promises :
        /\ Succeeded(x, "calendar")
        /\ EventsOf(x) # {}
        /\ PromiseOf(y).pos = "settled"
        /\ Analysed(y)
        /\ ~MeetingSignalled(PromiseOf(y).analysis)
        /\ PromiseOf(y).email.id = PromiseOf(x).email.id

\* the description a task row is to have
ExpectedDescription(task, body) ==
    IF Truthy(Prop(task, "description")) THEN Prop(task, "description")
    ELSE Text(body.name, IF body.len > 300 THEN 300 ELSE body.len)

\* C13: when tasks are signalled, a pass inserts exactly one row per extracted
\* task, referencing the email, pending, with the analysis's confidence and
\* the model's description or else the first 300 characters of the body; when
\* no tasks are signalled it inserts none.
C13_OneRowPerTask ==
    \A x \in Promises :
        LET p == PromiseOf(x)
            ts == ExtractedTasks(p.analysis)
        IN /\ Succeeded(x, "tasks") =>
                 /\ TasksSignalled(p.analysis)
                 /\ Cardinality(TasksOf(x)) = Len(ts)
                 /\ \A k \in DOMAIN ts :
                       \E row \in TasksOf(x) :
                          /\ row.title = Prop(ts[k], "title")
                          /\ row.email_id = RefTo(p.email.id)
                          /\ row.status = Word("pending")
                          /\ row.ai_confidence = Prop(p.analysis, "confidence")
                          /\ row.description = ExpectedDescription(ts[k], p.email.body)
           /\ (~Analysed(x) \/ ~TasksSignalled(p.analysis)) => TasksOf(x) = {}

\* the two tasks of an email with a body of 450 characters were inserted, and
\* a pass whose analysis signalled no tasks but listed one has settled
C13_Witness ==
    /\ \E x \in Promises :
          /\ Succeeded(x, "tasks")
          /\ PromiseOf(x).email.body.len > 300
          /\ Cardinality(TasksOf(x)) = 2
    /\ \E y \in Promises :
          /\ PromiseOf(y).pos = "settled"
          /\ Analysed(y)
          /\ ~TasksSignalled(PromiseOf(y).analysis)
          /\ ExtractedTasks(PromiseOf(y).analysis) # <<>>

\* the passes over email e whose insert of the kind succeeded
Inserters(e, write) ==
    {x \in Promises : PromiseOf(x).email.id = e /\ Succeeded(x, write)}

RECURSIVE SumTasks(_)
\* the number of tasks extracted by the passes in X
SumTasks(X) ==
    IF X = {} THEN 0
    ELSE LET x == CHOOSE y \in X : TRUE IN
         Len(ExtractedTasks(PromiseOf(x).analysis)) + SumTasks(X \ {x})

\* C14: repeated analysis is not deduplicated: the store holds, for an email,
\* as many task rows as the passes over it inserted together (k * t after k
\* passes inserting t tasks each) and one calendar event per pass that
\* inserted one; every row a pass inserted is still there after a later pass.
C14_NoDeduplication ==
    \A e \in StoreEmails :
        /\ Cardinality({row \in tasksTable : row.email_id = RefTo(e)
                                              /\ \E x \in Inserters(e, "tasks") :
                                                    SubSeq(row.id, 1, 2) = x})
              = SumTasks(Inserters(e, "tasks"))
        /\ EmailExists(e) =>
              /\ Cardinality({row \in tasksTable : row.email_id = e})
                    = SumTasks(Inserters(e, "tasks"))
              /\ Cardinality({row \in eventsTable : row.email_id = e})
                    = Cardinality(Inserters(e, "calendar"))

\* two passes over email 1 have ended, each having inserted two tasks and a
\* calendar event
C14_Witness ==
    /\ runPc[1] = "done" /\ runPc[2] = "done"
    /\ EmailExists(1)
    /\ Cardinality(Inserters(1, "calendar")) = 2
    /\ Cardinality(Inserters(1, "tasks")) = 2
    /\ Cardinality({row \in tasksTable : row.email_id = 1}) = 4

\* the promise of pass r for email e
PromiseFor(r, e) ==
    PromiseOf(CHOOSE x \in Promises : x[1] = r /\ PromiseOf(x).email.id = e)

\* the six AI columns as an analysis gives them, a missing one being null
AnalysisColumns(analysis) ==
    LET u == EmailUpdate(analysis) IN
    [c \in DOMAIN u |-> IF u[c].t = "undefined" THEN JNull ELSE u[c]]

\* the rows the passes in X insert for their emails
EventRowsOf(X) == {EventRow(PromiseOf(x).email, PromiseOf(x).analysis, x) : x \in X}
TaskRowsOf(X) ==
    UNION {{TasksToInsert(PromiseOf(x).email, PromiseOf(x).analysis, x)[k] :
               k \in DOMAIN ExtractedTasks(PromiseOf(x).analysis)} : x \in X}

C19_ReferencesValid ==
    /\ \A row \in eventsTable \cup draftsTable : EmailExists(row.email_id)
    /\ \A row \in tasksTable : row.email_id = NullRef \/ EmailExists(row.email_id)
    /\ \A x \in Promises :
          Succeeded(x, "tasks") =>
              /\ TasksOf(x) # {}
              /\ \A row \in TasksOf(x) : row.email_id = RefTo(PromiseOf(x).email.id)

\* email 1 was deleted after a pass had inserted a calendar event and tasks
\* for it: the tasks are kept without a reference
C19_Witness ==
    /\ ~EmailExists(1)
    /\ \E x \in Promises :
          /\ PromiseOf(x).email.id = 1
          /\ Succeeded(x, "calendar")
          /\ Succeeded(x, "tasks")
          /\ \E row \in TasksOf(x) : row.email_id = NullRef
    /\ draftPc = "done"

-----------------------------------------------------------------------------
(* Properties of the entry of the edge functions, checked under SpecEdge *)

\* a credential the invoked function reads is not set
CredentialMissing == Reads(fn) \ env # {}

\* the invocation answers before it reads any credential: a CORS preflight,
\* or summarize-emails given no emails
AnsweredBeforeCheck ==
    \/ req.method = "OPTIONS"
    \/ fn = "summarize-emails" /\ req.body \in {"missing", "empty"}

\* C16 as stated: for every edge function and every request body, a POST
\* invocation with a required credential missing responds with HTTP 500 and
\* makes no gateway request and no database call.
C16_MissingCredentialIsFatal ==
    (CredentialMissing /\ req.method = "POST" /\ edgePc = "done")
        => (edgeStatus = 500 /\ edgeCalls = <<>>)

\* C16 as the code has it: with a required credential missing no gateway
\* request and no database call is ever made, and the response is 500 except
\* where the handler answers before its credential check (the preflight, and
\* summarize-emails with no emails), where it is 200.
C16_NoCallWithoutCredential ==
    CredentialMissing =>
        /\ edgeCalls = <<>>
        /\ edgePc # "calling"
        /\ edgePc = "done" =>
              edgeStatus = (IF AnsweredBeforeCheck THEN 200 ELSE 500)

\* a POST to the id-based analyze-email with emails to analyse and the API key
\* set but SUPABASE_URL missing has been answered with 500 and no call
C16_Witness ==
    /\ fn = "analyze-email:ids"
    /\ req = [method |-> "POST", body |-> "some"]
    /\ env = {"LOVABLE_API_KEY", "SUPABASE_SERVICE_ROLE_KEY"}
    /\ edgePc = "done"
    /\ edgeStatus = 500
    /\ edgeCalls = <<>>

-----------------------------------------------------------------------------
(* Properties of the Tasks page, checked under SpecTasks *)

\* no save is between its two database writes
EditsSettled == editPc \in {"idle", "editing"}

\* C20: after any sequence of saved edits, failed writes included, the task
\* has as many TaskCorrection records as edits applied to its row, and the
\* k-th record holds the edited fields before and after the k-th edit.
C20_CorrectionPerAppliedEdit ==
    EditsSettled =>
        /\ Len(corrections) = Len(applied)
        /\ \A k \in 1..Len(corrections) :
              /\ corrections[k].original_extraction = applied[k].before
              /\ corrections[k].corrected_values = applied[k].after

-----------------------------------------------------------------------------
(* Properties of a failed analysis, checked under SpecStore *)

\* the promise ended in its catch block before any write
GatewayFailed(x) == PromiseOf(x).pos = "settled" /\ ~Analysed(x)

\* C27: a promise whose gateway call failed, returned no tool call or returned
\* unparsable arguments attempts no write and inserts no task and no event
\* row; the row of an email that no promise has updated holds no AI field.
C27_FailureWritesNothing ==
    /\ \A x \in Promises :
          GatewayFailed(x) =>
              /\ PromiseOf(x).attempted = {}
              /\ ~PromiseOf(x).success
              /\ EventsOf(x) = {}
              /\ TasksOf(x) = {}
    /\ \A e \in StoreEmails :
          (EmailExists(e) /\ Inserters(e, "update") = {}) =>
              emailRow[e] = UnanalyzedRow
    /\ \A e \in StoreEmails :
          (EmailExists(e) /\ lastUpdate[e] # 0) =>
              emailRow[e].summary = EmailUpdate(PromiseFor(lastUpdate[e], e).analysis).summary

\* the first pass stored an analysis of email 1, the gateway call of the
\* second pass for it failed, and the row holds the first
\* pass's fields
C27_Witness ==
    /\ runPc[1] = "done" /\ runPc[2] = "done"
    /\ EmailExists(1)
    /\ Succeeded(<<1, 1>>, "update")
    /\ GatewayFailed(<<2, 1>>)
    /\ emailRow[1] = AnalysisColumns(PromiseOf(<<1, 1>>).analysis)
    /\ emailRow[1].summary = Word("hi")

-----------------------------------------------------------------------------
(* Properties of ownership, checked under SpecStore *)

\* the owner of email e, deleted or not
OwnerOf(e) == EmailRecord(e).user_id

\* C23: every email an analyze-email invocation has fetched, and every email
\* generate-email-response has fetched or written a draft for, is owned by
\* the user who made the request.
C23_OnlyOwnRows ==
    /\ \A x \in Promises : PromiseOf(x).email.user_id = Caller(x[1])
    /\ draftPc = "gateway" => OwnerOf(1) = Caller(0)
    /\ \A row \in draftsTable : row.user_id = Caller(0)

\* C28: every calendar event and every draft has the user_id of the email it
\* references, and every task has the user_id of the email it was extracted
\* from, whoever made the request.
C28_RowsOwnedByEmailOwner ==
    /\ \A row \in eventsTable \cup draftsTable : row.user_id = OwnerOf(row.email_id)
    /\ \A x \in Promises :
          \A row \in EventsOf(x) \cup TasksOf(x) :
              row.user_id = PromiseOf(x).email.user_id

\* alice's invocation has inserted an event and tasks for bob's email 2, and
\* bob's generate-email-response a draft for alice's email 1
C28_Witness ==
    /\ EventsOf(<<1, 2>>) # {}
    /\ TasksOf(<<1, 2>>) # {}
    /\ \A row \in EventsOf(<<1, 2>>) \cup TasksOf(<<1, 2>>) : row.user_id = "bob"
    /\ Caller(1) = "alice"
    /\ \E row \in draftsTable : row.email_id = 1 /\ row.user_id = "alice"

-----------------------------------------------------------------------------
(* Termination of a batch run, checked under LiveBatch *)

-----------------------------------------------------------------------------
(* Properties of a task's status, checked under SpecTasks *)

\* C30: after any sequence of status changes, snoozes and completion toggles
\* the task's completed_at is set if and only if its status is 'completed'.
C30_CompletedAtIffCompleted ==
    (taskRow.completed_at # JNull) <=> (taskRow.status = "completed")

-----------------------------------------------------------------------------
(* Properties of the compose dialog, checked under SpecCompose *)

\* the log entry at place k, or an entry of no kind when the log has no such
\* place
LogAt(k) ==
    IF k \in DOMAIN composeLog THEN composeLog[k] ELSE Event("none", <<>>, FALSE)

\* the entries of the submit that logged place k
SubmitOf(k) ==
    LET start == CHOOSE s \in EventsOfKind("submit") :
                    s <= k /\ \A t \in EventsOfKind("submit") : t <= k => t <= s
    IN {j \in DOMAIN composeLog :
           start <= j /\ \A t \in EventsOfKind("submit") : t > start => j < t}

\* C21: a submit whose insert succeeded invokes analyze-email exactly once,
\* with exactly the id of the inserted email, and calls the refetch only
\* after that invocation has returned (with or without an analysis error); a
\* submit whose insert failed invokes nothing and refetches nothing.
C21_OneInvocationPerInsert ==
    \A k \in DOMAIN composeLog :
        LET e == composeLog[k]
            mine == SubmitOf(k)
            invokes == {j \in mine : composeLog[j].ev = "invoke"}
            refetches == {j \in mine : composeLog[j].ev = "refetch"}
        IN /\ (e.ev = "insert" /\ e.ok) =>
                 /\ Cardinality(invokes) = 1
                 /\ LogAt(k + 1).ev = "invoke"
                 /\ LogAt(k + 1).ids = e.ids
                 /\ Len(e.ids) = 1
                 /\ \A j \in EventsOfKind("insert") :
                       (composeLog[j].ok /\ j # k) => composeLog[j].ids # e.ids
                 /\ Cardinality(refetches) <= 1
                 /\ \A j \in refetches : LogAt(j - 1).ev = "returned" /\ j > k + 1
           /\ (e.ev = "insert" /\ ~e.ok) => (invokes = {} /\ refetches = {})
           /\ e.ev = "invoke" => (LogAt(k - 1).ev = "insert" /\ LogAt(k - 1).ok)

\* a submit whose insert failed, then two submits whose inserts succeeded,
\* the analysis of the second failing: each of the two has invoked the
\* analysis of its own email and refetched
C21_Witness ==
    /\ composePc = "idle"
    /\ Cardinality(EventsOfKind("submit")) = 3
    /\ Cardinality(EventsOfKind("invoke")) = 2
    /\ Cardinality(EventsOfKind("refetch")) = 2
    /\ \E k \in EventsOfKind("insert") : ~composeLog[k].ok
    /\ \E k \in EventsOfKind("invoke") : composeLog[k].ids = <<2>>
    /\ \E k \in EventsOfKind("returned") : ~composeLog[k].ok

-----------------------------------------------------------------------------
(* Properties of the AI reply dialog, checked under SpecDialog *)

\* C29: once the reply has been sent and the dialog has closed, no draft
\* generated during the dialog session is left in email_drafts.
C29_NoDraftRemains ==
    (dlgSent /\ dlgPc.send = "closed" /\ dlgPc.gen = "idle") => dlgDrafts = {}

-----------------------------------------------------------------------------
(* Properties of the inbox page, checked under SpecInbox *)

Ids(emailList) == [k \in DOMAIN emailList |-> emailList[k].id]

\* sub is list with some elements left out, the order kept (the emails are
\* told apart by their ids, which are increasing in a fetched list)
IsSubList(sub, list) ==
    /\ \A k \in DOMAIN sub : \E m \in DOMAIN list : list[m] = sub[k]
    /\ \A k, m \in DOMAIN sub : k < m => sub[k].id < sub[m].id

\* the category rule: 'starred' shows the starred emails, 'sent' the sent
\* ones, a category the inbox emails of that category, 'all' the inbox emails
InCategory(email) ==
    CASE selectedCategory = "starred" -> email.starred
      [] selectedCategory = "sent" -> email.email_type = "sent"
      [] selectedCategory = "all" -> email.email_type = "inbox"
      [] OTHER -> email.category = selectedCategory /\ email.email_type = "inbox"

InPriority(email) ==
    selectedPriority = "all" \/ email.priority = selectedPriority

\* the query occurs in the subject, the sender or the body, whatever the case
InSearch(email) ==
    \/ searchQuery = <<>>
    \/ \E text \in {email.subject, email.from, email.body} :
          includes(toLowerCase(text), toLowerCase(searchQuery))

Shown(email) == InCategory(email) /\ InPriority(email) /\ InSearch(email)

\* C24 (as amended): once the filter effect has run for the current emails and
\* filter selections, the displayed list is the sub-list of the full list
\* holding exactly the emails that pass the category, priority and search
\* filters, in the order of the full list
C24_SettledListIsFiltered ==
    ~effectPending =>
        /\ filteredEmails = SelectSeq(inbox, Shown)
        /\ IsSubList(filteredEmails, inbox)

\* the effect has run with a category, a priority and a query selected that
\* together keep one email and leave others out
C24_Witness ==
    /\ ~effectPending
    /\ selectedCategory = "work"
    /\ selectedPriority = "high"
    /\ searchQuery # <<>>
    /\ Len(filteredEmails) = 1
    /\ Len(inbox) = 3

\* C24 (as stated): the displayed list is at every moment a sub-list of the
\* full list; it is not in the render between setEmails and the filter effect
C24_AlwaysSubList ==
    \A k \in DOMAIN filteredEmails :
        \E m \in DOMAIN inbox : inbox[m].id = filteredEmails[k].id


\* the email with this id in the list after the step
After(id) == find(inbox', id)

\* what a handler that wrote successfully leaves: the flag of its email is the
\* value it wrote (the negation of the flag it saw), or its email is gone,
\* and every other email is as before
SuccessEffect(o) ==
    CASE o.kind = "read" ->
            /\ inbox' = [k \in DOMAIN inbox |->
                            IF inbox[k].id = o.id
                            THEN [inbox[k] EXCEPT !.read = ~find(o.emails, o.id).read]
                            ELSE inbox[k]]
            /\ inboxDb[o.id] # Deleted => inboxDb'[o.id].read = After(o.id).read
      [] o.kind = "star" ->
            /\ inbox' = [k \in DOMAIN inbox |->
                            IF inbox[k].id = o.id
                            THEN [inbox[k] EXCEPT !.starred = ~find(o.emails, o.id).starred]
                            ELSE inbox[k]]
            /\ inboxDb[o.id] # Deleted => inboxDb'[o.id].starred = After(o.id).starred
      [] o.kind = "delete" ->
            /\ inbox' = SelectSeq(inbox, LAMBDA e : e.id # o.id)
            /\ inboxDb'[o.id] = Deleted

\* C25: when a toggle-read, toggle-star or delete that ran on its own (no
\* other one was awaiting its write meanwhile, and the emails state is the one
\* it was started with) returns: on an error the local list, the category
\* counts and the table are unchanged; on success the flag of its email is
\* the value written, or the email is removed, and no other email changes
C25_OneAtATime ==
    [][\A o \in inflight :
          (inflight' = inflight \ {o} /\ ~o.overlapped /\ o.emails = inbox) =>
              IF lastDone'.ok
              THEN SuccessEffect(o)
              ELSE /\ inbox' = inbox
                   /\ categoryCounts' = categoryCounts
                   /\ inboxDb' = inboxDb]_vars

\* a handler that ran on its own has returned with success, and the list
\* shows its change
C25_Witness ==
    /\ lastDone # NotRun
    /\ lastDone.ok
    /\ ~lastDone.overlapped
    /\ lastDone.kind = "read"
    /\ find(inbox, lastDone.id).read = inboxDb[lastDone.id].read
    /\ find(inbox, lastDone.id).read # InboxRows[lastDone.id].read

\* the local list and the table hold the same emails with the same flags
Agrees ==
    /\ \A k \in DOMAIN inbox : inboxDb[inbox[k].id] = inbox[k]
    /\ \A id \in DOMAIN inboxDb :
          inboxDb[id] # Deleted => find(inbox, id) # NotRun

\* C26: when every started toggle and delete has returned, the local list
\* reflects all their changes: it agrees with the table on the read and
\* starred flags and on which emails exist
C26_OverlappingActionsAgree ==
    inflight = {} => Agrees

====
